---- MODULE Spec2Model ----
(***************************************************************************)
(* Audio transport of x402 payment frames: the OOK modem (fsk_modem.py),    *)
(* the compact payment codec (compact_x402.py, payment.py) and the seller   *)
(* and buyer flows (ui_seller.py, ui_buyer.py).                             *)
(*                                                                          *)
(* Audio is modelled at the granularity the demodulator can observe: every  *)
(* position it reads is a multiple of SAMPLES_PER_BIT \div 4 samples (the   *)
(* scan step), so a buffer is a sequence of symbol slots (tone or silence)  *)
(* preceded by `lead` scan steps of silence.  A tone is exactly on Goertzel *)
(* bin 24 and has a whole number of cycles per scan step, so the power of a *)
(* window is (tone steps in the window)^2, in units of 1/16 of the power of *)
(* a full tone window.  The 2000-2800 Hz band-pass passes the 2400 Hz tone  *)
(* and silence unchanged in this model.                                     *)
(***************************************************************************)
EXTENDS Integers, Sequences, FiniteSets, TLC

VARIABLES
    m_pc,       \* modem run: "idle", "encoded", "encode_error", "captured",
                \* "windowed", "filtered", "synced", "decoded"
    m_data,     \* payload handed to encode_fsk
    m_audio,    \* symbol slots of the buffer (1 = tone, 0 = silence)
    m_lead,     \* scan steps of silence recorded before the first slot
    m_flips,    \* slots the channel inverted
    m_amp,      \* amplitude of the tone in the capture, in 1/10000
    m_wp,       \* decode_fsk: window_powers, as the count of each power
    m_thr,      \* decode_fsk: 200 * adaptive_threshold * max_power
    m_sync,     \* decode_fsk: best_sync_pos
    m_result,   \* what decode_fsk returned
    c_pc,       \* codec run: "idle", "encoded", "received", "decoded",
                \* "decode_error"
    c_codec,    \* the record class in use
    c_rec,      \* the record handed to to_bytes
    c_wire,     \* the bytes handed to from_bytes
    c_how,      \* what happened to the bytes on the way
    c_out,      \* the record from_bytes returned
    s_state,    \* ui_seller.py: the module-level state dict
    s_thread,   \* ui_seller.py: the run_seller_flow threads and their locals
    b_state,    \* ui_buyer.py: the module-level state dict
    b_thread,   \* ui_buyer.py: the run_buyer_flow threads and their locals
    u_fn,       \* a call of a helper of fsk_modem.py: the function called
    u_arg,      \* its argument
    u_out,      \* what it returned
    t_run       \* one exchange on the clock: when each side plays and records

mvars == <<m_pc, m_data, m_audio, m_lead, m_flips, m_amp, m_wp, m_thr, m_sync, m_result>>
cvars == <<c_pc, c_codec, c_rec, c_wire, c_how, c_out>>
svars == <<s_state, s_thread>>
bvars == <<b_state, b_thread>>
uvars == <<u_fn, u_arg, u_out>>
tvars == <<t_run>>

vars == <<mvars, cvars, svars, bvars, uvars, tvars>>
NotModem == <<cvars, svars, bvars, uvars, tvars>>
NotCodec == <<mvars, svars, bvars, uvars, tvars>>
NotSeller == <<mvars, cvars, bvars, uvars, tvars>>
NotBuyer == <<mvars, cvars, svars, uvars, tvars>>
NotHelper == <<mvars, cvars, svars, bvars, tvars>>
NotTiming == <<mvars, cvars, svars, bvars, uvars>>

-----------------------------------------------------------------------------
(* Bounds of the model *)

MaxLen == 2          \* payloads of every content up to this length
MaxLead == 3         \* scan steps of silence a capture may start with
MaxTail == 2         \* bytes a received record may carry after its last field
MaxStarts == 2       \* POST /start requests a side receives
MaxEarly == 300      \* steps of 40 ms the buyer may start before the seller
MaxLate == 75        \* steps of 40 ms the buyer may start after the seller

-----------------------------------------------------------------------------
(* fsk_modem.py: parameters *)

SAMPLE_RATE == 48000
TONE_FREQ == 2400
BIT_DURATION_MS == 10
SAMPLES_PER_BIT == (SAMPLE_RATE * BIT_DURATION_MS) \div 1000
REPETITIONS == 2
PREAMBLE_BYTE == 170
SYNC_BYTE == 85
PREAMBLE_LEN == 4
SILENCE_MS == 200
MIN_WINDOWS == 10
SYNC_MARGIN_BITS == 60
MAX_SEARCH_S == 10
None == -1

\* bytes([x]) accepts 0..255 only
BYTE_RANGE == 256

-----------------------------------------------------------------------------
(* Bit utilities *)

RECURSIVE Xor(_, _)
Xor(a, b) ==
    IF a = 0 THEN b
    ELSE IF b = 0 THEN a
    ELSE (((a % 2) + (b % 2)) % 2) + 2 * Xor(a \div 2, b \div 2)

RECURSIVE Pow2(_)
Pow2(n) == IF n = 0 THEN 1 ELSE 2 * Pow2(n - 1)

CRC_INIT == 65535
CRC_POLY == 4129
CRC_TOPBIT == 32768
CRC_MASK == 65536

\* variant: the polynomial is never applied
CrcShiftNoPoly(crc) == (crc * 2) % CRC_MASK

\* one pass of the inner loop of crc16, lines 40-44
CrcShift(crc) ==
    IF crc >= CRC_TOPBIT
    THEN Xor(crc * 2, CRC_POLY) % CRC_MASK
    ELSE (crc * 2) % CRC_MASK

RECURSIVE CrcShifts(_, _)
CrcShifts(crc, n) == IF n = 0 THEN crc ELSE CrcShifts(CrcShift(crc), n - 1)

\* the outer loop of crc16 over bytes i..j (the register is a 16-bit value
\* after every byte, which the test c < CRC_MASK also makes TLC compute
\* before it goes on)
RECURSIVE CrcRange(_, _, _, _)
CrcRange(crc, data, i, j) ==
    IF i > j THEN crc
    ELSE LET c == CrcShifts(Xor(crc, data[i] * 256), 8)
         IN IF c < CRC_MASK THEN CrcRange(c, data, i + 1, j) ELSE c

\* the same loop from byte i on, taken in runs of CRC_RUN bytes
CRC_RUN == 16

RECURSIVE CrcFrom(_, _, _)
CrcFrom(crc, data, i) ==
    IF i > Len(data) THEN crc
    ELSE LET j == IF i + CRC_RUN - 1 < Len(data) THEN i + CRC_RUN - 1 ELSE Len(data)
             c == CrcRange(crc, data, i, j)
         IN IF c < CRC_MASK THEN CrcFrom(c, data, j + 1) ELSE c

\* variant: the register starts at 0
crc16_from_zero(data) == CrcFrom(0, data, 1)

crc16(data) == CrcFrom(CRC_INIT, data, 1)

\* variant: the least significant bit comes first
bytes_to_bits_lsb(data) ==
    [k \in 1..(8 * Len(data)) |->
        (data[((k - 1) \div 8) + 1] \div Pow2((k - 1) % 8)) % 2]

\* MSB first: bit k (1-based) of the byte sequence
bytes_to_bits(data) ==
    [k \in 1..(8 * Len(data)) |->
        (data[((k - 1) \div 8) + 1] \div Pow2(7 - ((k - 1) % 8))) % 2]

\* pads with zeros to a multiple of 8, then packs MSB first
bits_to_bytes(bits) ==
    LET n == (Len(bits) + 7) \div 8
        bit(k) == IF k <= Len(bits) THEN bits[k] ELSE 0
    IN [i \in 1..n |->
          bit(8*i-7) * 128 + bit(8*i-6) * 64 + bit(8*i-5) * 32 + bit(8*i-4) * 16
        + bit(8*i-3) * 8 + bit(8*i-2) * 4 + bit(8*i-1) * 2 + bit(8*i)]

-----------------------------------------------------------------------------
(* Modulator *)

\* variant: the whole bit string sent r times in a row
RepeatWhole(bits, r) == [k \in 1..(r * Len(bits)) |-> bits[((k - 1) % Len(bits)) + 1]]

\* each bit becomes r consecutive symbols
Repeat(bits, r) == [k \in 1..(r * Len(bits)) |-> bits[((k - 1) \div r) + 1]]

SilenceSlots == ((SAMPLE_RATE * SILENCE_MS) \div 1000) \div SAMPLES_PER_BIT

\* variant: the silence is one symbol short
SilenceShort(n) == [k \in 1..(n - 1) |-> 0]

\* np.zeros(n), in symbol slots
Silence(n) == [k \in 1..n |-> 0]

\* variant: a length of 256 is let through
EncodeRaisesAbove(data) == Len(data) > BYTE_RANGE

\* bytes([len(data)]) raises ValueError when len(data) is not a byte
EncodeRaises(data) == Len(data) >= BYTE_RANGE

\* encode_fsk for a payload it accepts: the symbol slots of the returned audio
encode_fsk(data) ==
    LET length_byte == <<Len(data)>>
        crc         == crc16(data)
        crc_bytes   == <<crc \div 256, crc % 256>>
        header      == [k \in 1..PREAMBLE_LEN |-> PREAMBLE_BYTE] \o <<SYNC_BYTE>>
        header_bits == bytes_to_bits(header)
        length_bits == bytes_to_bits(length_byte)
        payload_bits == bytes_to_bits(data \o crc_bytes)
        samples     == header_bits
                       \o Repeat(length_bits, REPETITIONS)
                       \o Repeat(payload_bits, REPETITIONS)
    IN Silence(SilenceSlots) \o samples \o Silence(SilenceSlots)

\* line 329: the 0.4 s added for the silences, in milliseconds
DURATION_PAD_MS == 400

\* variant: the two CRC bytes are not counted
get_duration_payload_only(data_length) ==
    ((4 + 1) * 8 + 8 * REPETITIONS + data_length * 8 * REPETITIONS)
        * BIT_DURATION_MS + DURATION_PAD_MS

\* get_duration, in milliseconds
get_duration(data_length) ==
    LET header_bits  == (4 + 1) * 8
        length_bits  == 8 * REPETITIONS
        payload_bits == (data_length + 2) * 8 * REPETITIONS
        total_bits   == header_bits + length_bits + payload_bits
    IN total_bits * BIT_DURATION_MS + DURATION_PAD_MS

-----------------------------------------------------------------------------
(* Demodulator, on the captured buffer <<m_lead, m_audio>>.  Positions are   *)
(* sample indices, as in the code.  decode_fsk is taken in its four          *)
(* sections: the window powers (lines 180-200), the threshold (202-213),     *)
(* the sync scan (260-294) and the payload recovery (296-320).               *)

STEP == SAMPLES_PER_BIT \div 4

\* len(filtered)
AudioLen == m_lead * STEP + Len(m_audio) * SAMPLES_PER_BIT

\* tone (1) or silence (0) in the scan step c (0-based) of the buffer
Level(c) ==
    IF c < m_lead THEN 0
    ELSE IF ((c - m_lead) \div 4) + 1 <= Len(m_audio)
         THEN m_audio[((c - m_lead) \div 4) + 1]
         ELSE 0

\* tone steps in the window of SAMPLES_PER_BIT samples starting at `start`
ToneSteps(start) ==
    Level(start \div STEP) + Level((start \div STEP) + 1)
    + Level((start \div STEP) + 2) + Level((start \div STEP) + 3)

\* power at the tone of that window, in units of 1/16 of a full tone window
goertzel_power(start) == ToneSteps(start) * ToneSteps(start)

\* generate_tone: the amplitude 0.8, in 1/10000
TONE_AMP_PCT == 80
ToneAmp == TONE_AMP_PCT * 100

\* 1e8 times the Goertzel power of a window of `units`, rounded down: a full
\* window (16 units) of amplitude A has power A * A / 4
PowerE8(units) == (units * m_amp * m_amp) \div 64

\* len(range(0, len(filtered) - SAMPLES_PER_BIT, SAMPLES_PER_BIT))
NumWindows ==
    IF AudioLen - SAMPLES_PER_BIT <= 0 THEN 0
    ELSE (AudioLen - SAMPLES_PER_BIT + SAMPLES_PER_BIT - 1) \div SAMPLES_PER_BIT

PowerLevels == {0, 1, 4, 9, 16}

\* lines 190-194: window_powers, as the number of windows of each power
WindowPowers ==
    LET wp == [i \in 0..(NumWindows - 1) |-> goertzel_power(i * SAMPLES_PER_BIT)]
    IN [v \in PowerLevels |-> Cardinality({i \in 0..(NumWindows - 1) : wp[i] = v})]

\* how many of the window powers are at most v
CountLE(v) ==
    (IF 0 <= v THEN m_wp[0] ELSE 0) + (IF 1 <= v THEN m_wp[1] ELSE 0)
    + (IF 4 <= v THEN m_wp[4] ELSE 0) + (IF 9 <= v THEN m_wp[9] ELSE 0)
    + (IF 16 <= v THEN m_wp[16] ELSE 0)

\* the k-th (0-based) smallest window power
SortedAt(k) ==
    IF CountLE(0) > k THEN 0
    ELSE IF CountLE(1) > k THEN 1
    ELSE IF CountLE(4) > k THEN 4
    ELSE IF CountLE(9) > k THEN 9
    ELSE 16

\* 100 * np.percentile(window_powers, q), linear interpolation
Percentile100(q) ==
    LET pos == q * (NumWindows - 1)
        lo  == pos \div 100
        hi  == IF lo + 1 <= NumWindows - 1 THEN lo + 1 ELSE lo
    IN IF pos % 100 = 0 THEN 100 * SortedAt(lo)
       ELSE (100 - (pos % 100)) * SortedAt(lo) + (pos % 100) * SortedAt(hi)

HIGH_PCT == 85
LOW_PCT == 15

\* 200 * adaptive_threshold * max_power
Threshold200 == Percentile100(HIGH_PCT) + Percentile100(LOW_PCT)

\* np.max(window_powers)
MaxPower == IF m_wp[16] > 0 THEN 16 ELSE IF m_wp[9] > 0 THEN 9
            ELSE IF m_wp[4] > 0 THEN 4 ELSE IF m_wp[1] > 0 THEN 1 ELSE 0

\* decode_bit: None past the end, else 1 when the power exceeds the threshold
decode_bit(start_idx) ==
    IF start_idx + SAMPLES_PER_BIT > AudioLen THEN None
    ELSE IF 200 * goertzel_power(start_idx) > m_thr THEN 1 ELSE 0

\* variant: a tie votes 1
VoteTieOne(sum) == IF 2 * sum >= REPETITIONS THEN 1 ELSE 0

\* line 245: the vote over the sum of the votes of one repeated bit
Vote(sum) == IF sum > REPETITIONS \div 2 THEN 1 ELSE 0

\* the sum of the votes of the r windows from pos on
RECURSIVE VoteSum(_, _)
VoteSum(pos, r) ==
    IF r = 0 THEN 0 ELSE decode_bit(pos) + VoteSum(pos + SAMPLES_PER_BIT, r - 1)

\* the bit decode_bit_with_repetition returns: None when one of its windows
\* ends past the buffer
decode_bit_with_repetition(start_idx) ==
    IF start_idx + REPETITIONS * SAMPLES_PER_BIT > AudioLen THEN None
    ELSE Vote(VoteSum(start_idx, REPETITIONS))

BitSpan == REPETITIONS * SAMPLES_PER_BIT

\* the value decode_byte_with_repetition returns
decode_byte_with_repetition(start_idx) ==
    IF start_idx + 8 * BitSpan > AudioLen THEN None
    ELSE decode_bit_with_repetition(start_idx) * 128
         + decode_bit_with_repetition(start_idx + BitSpan) * 64
         + decode_bit_with_repetition(start_idx + 2 * BitSpan) * 32
         + decode_bit_with_repetition(start_idx + 3 * BitSpan) * 16
         + decode_bit_with_repetition(start_idx + 4 * BitSpan) * 8
         + decode_bit_with_repetition(start_idx + 5 * BitSpan) * 4
         + decode_bit_with_repetition(start_idx + 6 * BitSpan) * 2
         + decode_bit_with_repetition(start_idx + 7 * BitSpan)

ByteSpan == 8 * SAMPLES_PER_BIT

\* bit i (0 = most significant) of the byte b
BitOf(b, i) == (b \div Pow2(7 - i)) % 2

\* decode_byte_simple(start_idx) returns the byte b: none of its 8 windows
\* ends past the buffer, and they decode to the bits of b, MSB first
SimpleByteIs(start_idx, b) ==
    /\ start_idx + ByteSpan <= AudioLen
    /\ \A i \in 0..7 : decode_bit(start_idx + i * SAMPLES_PER_BIT) = BitOf(b, i)

\* variant: a fourth 0xAA before the 0x55 is accepted too
SyncAtDeeper(pos) ==
    IF ~SimpleByteIs(pos, PREAMBLE_BYTE) THEN None
    ELSE IF SimpleByteIs(pos + ByteSpan, SYNC_BYTE) THEN pos + ByteSpan
    ELSE IF ~SimpleByteIs(pos + ByteSpan, PREAMBLE_BYTE) THEN None
    ELSE IF SimpleByteIs(pos + 2 * ByteSpan, SYNC_BYTE) THEN pos + 2 * ByteSpan
    ELSE IF ~SimpleByteIs(pos + 2 * ByteSpan, PREAMBLE_BYTE) THEN None
    ELSE IF SimpleByteIs(pos + 3 * ByteSpan, SYNC_BYTE) THEN pos + 3 * ByteSpan
    ELSE IF ~SimpleByteIs(pos + 3 * ByteSpan, PREAMBLE_BYTE) THEN None
    ELSE IF SimpleByteIs(pos + 4 * ByteSpan, SYNC_BYTE) THEN pos + 4 * ByteSpan
    ELSE None

\* the body of the scan loop at one offset: the sync point it accepts, or None
SyncAt(pos) ==
    IF ~SimpleByteIs(pos, PREAMBLE_BYTE) THEN None
    ELSE IF SimpleByteIs(pos + ByteSpan, SYNC_BYTE) THEN pos + ByteSpan
    ELSE IF ~SimpleByteIs(pos + ByteSpan, PREAMBLE_BYTE) THEN None
    ELSE IF SimpleByteIs(pos + 2 * ByteSpan, SYNC_BYTE) THEN pos + 2 * ByteSpan
    ELSE IF ~SimpleByteIs(pos + 2 * ByteSpan, PREAMBLE_BYTE) THEN None
    ELSE IF SimpleByteIs(pos + 3 * ByteSpan, SYNC_BYTE) THEN pos + 3 * ByteSpan
    ELSE None

\* variant: the scan runs to the end of the buffer
MaxSearchWhole == AudioLen - SAMPLES_PER_BIT * SYNC_MARGIN_BITS

\* line 267
MaxSearch ==
    IF AudioLen - SAMPLES_PER_BIT * SYNC_MARGIN_BITS < SAMPLE_RATE * MAX_SEARCH_S
    THEN AudioLen - SAMPLES_PER_BIT * SYNC_MARGIN_BITS
    ELSE SAMPLE_RATE * MAX_SEARCH_S

\* the number of offsets in range(0, max_search, step)
NumOffsets == (MaxSearch + STEP - 1) \div STEP

\* the scan loop, taken in runs of SCAN_RUN offsets
SCAN_RUN == 32

\* the sync point of the first offset from the k-th on that has one
RECURSIVE FirstIn(_)
FirstIn(k) == IF SyncAt(k * STEP) # None THEN SyncAt(k * STEP) ELSE FirstIn(k + 1)

\* best_sync_pos when the loop starts at its k-th offset: the sync point of
\* the first offset at which the loop breaks; None if it never does
RECURSIVE ScanFrom(_)
ScanFrom(k) ==
    IF k > NumOffsets - 1 THEN None
    ELSE IF \E i \in k..(k + SCAN_RUN - 1) : i <= NumOffsets - 1 /\ SyncAt(i * STEP) # None
         THEN FirstIn(k)
         ELSE ScanFrom(k + SCAN_RUN)

BestSyncPos == ScanFrom(0)

NoFrame(why) ==
    [ok |-> FALSE, why |-> why, payload |-> <<>>, length |-> None,
     crc |-> None, sync |-> None]

\* variant: the payload is returned whatever the CRC
CheckCrcSkipped(payload, received_crc, payload_length) ==
    [ok |-> TRUE, why |-> "ok", payload |-> payload, length |-> payload_length,
     crc |-> received_crc, sync |-> m_sync]

\* lines 312-320: the CRC check on the bytes read after the length byte
CheckCrc(payload, received_crc, payload_length) ==
    IF received_crc # crc16(payload)
    THEN [NoFrame("crc") EXCEPT !.length = payload_length, !.crc = received_crc,
                                !.sync = m_sync]
    ELSE [ok |-> TRUE, why |-> "ok", payload |-> payload, length |-> payload_length,
          crc |-> received_crc, sync |-> m_sync]

\* lines 296-320: from the sync point on.  The length byte is read at
\* decode_start, byte i of payload + CRC at 8 repeated bits per byte after it.
RecoveredFrom(best_sync_pos) ==
    LET decode_start == best_sync_pos + 8 * SAMPLES_PER_BIT
        payload_length == decode_byte_with_repetition(decode_start)
    IN IF payload_length = None \/ payload_length > 255
       THEN [NoFrame("length") EXCEPT !.sync = best_sync_pos]
       ELSE IF decode_start + (payload_length + 3) * 8 * BitSpan > AudioLen
       THEN [NoFrame("short") EXCEPT !.length = payload_length,
                                     !.sync = best_sync_pos]
       ELSE [CheckCrc([i \in 1..payload_length |->
                        decode_byte_with_repetition(decode_start + i * 8 * BitSpan)],
                      decode_byte_with_repetition(
                          decode_start + (payload_length + 1) * 8 * BitSpan) * 256
                      + decode_byte_with_repetition(
                          decode_start + (payload_length + 2) * 8 * BitSpan),
                      payload_length) EXCEPT !.sync = best_sync_pos]

Recovered == RecoveredFrom(m_sync)

-----------------------------------------------------------------------------
(* compact_x402.py, payment.py: the record codecs.  A str is a sequence of   *)
(* one-character strings and bytes a sequence of 0..255.  A 32-bit quantity  *)
(* is a pair <<hi, lo>> of value hi * 65536 + lo with lo < 65536; a pair     *)
(* with hi >= 65536 is a Python int above 0xFFFFFFFF.                        *)

\* NETWORKS (compact_x402.py), NETWORK_IDS (payment.py)
NETWORKS ==
    ("base-sepolia" :> 0) @@ ("base" :> 1) @@ ("ethereum" :> 2)
    @@ ("ethereum-sepolia" :> 3)

NETWORKS_REVERSE ==
    [id \in {NETWORKS[n] : n \in DOMAIN NETWORKS} |->
        CHOOSE n \in DOMAIN NETWORKS : NETWORKS[n] = id]

USDC_ADDRESSES ==
    ("base-sepolia" :> "0x036CbD53842c5426634e7929541eC2318f3dCF7e")
    @@ ("base" :> "0x833589fCD6eDb6E08f4c7C32D4f71b54bdA02913")

\* NETWORKS.get(name, 0)
NetworkId(name) == IF name \in DOMAIN NETWORKS THEN NETWORKS[name] ELSE 0

\* NETWORKS_REVERSE.get(id, "base-sepolia")
NetworkName(id) ==
    IF id \in DOMAIN NETWORKS_REVERSE THEN NETWORKS_REVERSE[id] ELSE "base-sepolia"

\* USDC_ADDRESSES.get(network, USDC_ADDRESSES["base-sepolia"])
AssetOf(network) ==
    IF network \in DOMAIN USDC_ADDRESSES THEN USDC_ADDRESSES[network]
    ELSE USDC_ADDRESSES["base-sepolia"]

\* 0 if scheme == "exact" else 1
SchemeId(scheme) == IF scheme = "exact" THEN 0 ELSE 1

\* "exact" if scheme_id == 0 else "unknown"
SchemeName(id) == IF id = 0 THEN "exact" ELSE "unknown"

HexChars == <<"0", "1", "2", "3", "4", "5", "6", "7", "8", "9",
              "a", "b", "c", "d", "e", "f">>

\* the value of one hexadecimal digit, of either case
HexVal(c) ==
    CASE c = "0" -> 0 [] c = "1" -> 1 [] c = "2" -> 2 [] c = "3" -> 3
      [] c = "4" -> 4 [] c = "5" -> 5 [] c = "6" -> 6 [] c = "7" -> 7
      [] c = "8" -> 8 [] c = "9" -> 9
      [] c \in {"a", "A"} -> 10 [] c \in {"b", "B"} -> 11
      [] c \in {"c", "C"} -> 12 [] c \in {"d", "D"} -> 13
      [] c \in {"e", "E"} -> 14 [] c \in {"f", "F"} -> 15

\* bytes.fromhex(s), for an even number of hexadecimal digits
fromhex(s) == [i \in 1..(Len(s) \div 2) |-> 16 * HexVal(s[2 * i - 1]) + HexVal(s[2 * i])]

\* b.hex(): two lowercase digits per byte
hex(b) ==
    [k \in 1..(2 * Len(b)) |->
        IF k % 2 = 1 THEN HexChars[(b[(k + 1) \div 2] \div 16) + 1]
        ELSE HexChars[(b[k \div 2] % 16) + 1]]

\* s[2:]
Drop2(s) == SubSeq(s, 3, Len(s))

\* s[2:] if s.startswith("0x") else s
Strip0x(s) == IF Len(s) >= 2 /\ s[1] = "0" /\ s[2] = "x" THEN Drop2(s) ELSE s

\* "0x" + s
Prefix0x(s) == <<"0", "x">> \o s

\* variant: data[-n:]
SliceLast(data, n) ==
    SubSeq(data, (IF Len(data) < n THEN 0 ELSE Len(data) - n) + 1, Len(data))

\* data[:n]
Slice(data, n) == SubSeq(data, 1, IF Len(data) < n THEN Len(data) ELSE n)

\* b[i:j]
PySlice(b, i, j) == SubSeq(b, i + 1, IF Len(b) < j THEN Len(b) ELSE j)

U16_MAX == 65535
U16_RANGE == U16_MAX + 1

\* struct format H, big-endian
PackH(x) == <<x \div BYTE_RANGE, x % BYTE_RANGE>>

\* struct format I, big-endian
PackI(w) == PackH(w[1]) \o PackH(w[2])

\* variant: the first byte is dropped
PackSShifted(b, n) == [i \in 1..n |-> IF i < Len(b) THEN b[i + 1] ELSE 0]

\* struct format <n>s: truncated or zero-padded to n bytes
PackS(b, n) == [i \in 1..n |-> IF i <= Len(b) THEN b[i] ELSE 0]

UnpackH(d, i) == d[i] * BYTE_RANGE + d[i + 1]

UnpackI(d, i) == <<UnpackH(d, i), UnpackH(d, i + 2)>>

\* variant: the value is cut to its low 32 bits
Wrap32(w) == <<w[1] % U16_RANGE, w[2]>>

\* min(x, 0xFFFFFFFF)
Min32(w) == IF w[1] > U16_MAX THEN <<U16_MAX, U16_MAX>> ELSE w

\* min(x, 65535)
Min16(x) == IF x > U16_MAX THEN U16_MAX ELSE x

REQUEST_SIZE == 30
RESPONSE_SIZE == 108
ADDRESS_SIZE == 20
WORD_SIZE == 32
DEFAULT_V == 27

\* CompactPaymentRequest.to_bytes
CompactPaymentRequest_to_bytes(r) ==
    <<r.version, NetworkId(r.network), SchemeId(r.scheme)>>
    \o PackI(Min32(r.price))
    \o PackS(fromhex(Drop2(r.pay_to)), ADDRESS_SIZE)
    \o PackH(Min16(r.timeout))
    \o <<r.nonce % BYTE_RANGE>>

\* a reader whose layout has the timeout before the address (">B B B I H 20s B")
CompactPaymentRequest_from_bytes_shifted(data) ==
    LET d == Slice(data, REQUEST_SIZE)
    IN [version |-> d[1],
        network |-> NetworkName(d[2]),
        scheme  |-> SchemeName(d[3]),
        price   |-> UnpackI(d, 4),
        pay_to  |-> Prefix0x(hex(SubSeq(d, 10, 29))),
        asset   |-> AssetOf(NetworkName(d[2])),
        timeout |-> UnpackH(d, 8),
        nonce   |-> d[30]]

\* CompactPaymentRequest.from_bytes, on at least REQUEST_SIZE bytes
CompactPaymentRequest_from_bytes(data) ==
    LET d == Slice(data, REQUEST_SIZE)
    IN [version |-> d[1],
        network |-> NetworkName(d[2]),
        scheme  |-> SchemeName(d[3]),
        price   |-> UnpackI(d, 4),
        pay_to  |-> Prefix0x(hex(SubSeq(d, 8, 27))),
        asset   |-> AssetOf(NetworkName(d[2])),
        timeout |-> UnpackH(d, 28),
        nonce   |-> d[30]]

\* PaymentRequest.to_bytes
PaymentRequest_to_bytes(r) ==
    <<1, NetworkId(r.network), 0>>
    \o PackI(Min32(r.price))
    \o PackS(fromhex(Strip0x(r.pay_to)), ADDRESS_SIZE)
    \o PackH(Min16(r.timeout))
    \o <<r.nonce % BYTE_RANGE>>

\* PaymentRequest.from_bytes, on at least REQUEST_SIZE bytes
PaymentRequest_from_bytes(data) ==
    LET d == Slice(data, REQUEST_SIZE)
    IN [pay_to  |-> Prefix0x(hex(SubSeq(d, 8, 27))),
        price   |-> UnpackI(d, 4),
        timeout |-> UnpackH(d, 28),
        network |-> NetworkName(d[2]),
        nonce   |-> d[30]]

\* CompactPaymentResponse.to_bytes
CompactPaymentResponse_to_bytes(r) ==
    LET sig_bytes   == fromhex(Strip0x(r.signature))
        v           == IF Len(sig_bytes) > 64 THEN sig_bytes[65] ELSE DEFAULT_V
        nonce_bytes == fromhex(Strip0x(r.nonce))
    IN <<r.version, NetworkId(r.network), SchemeId(r.scheme), v>>
       \o PackS(PySlice(sig_bytes, 0, 32), WORD_SIZE)
       \o PackS(PySlice(sig_bytes, 32, 64), WORD_SIZE)
       \o PackS(nonce_bytes, WORD_SIZE)
       \o PackI(r.valid_after)
       \o PackI(r.valid_before)

\* CompactPaymentResponse.from_bytes, on at least RESPONSE_SIZE bytes
CompactPaymentResponse_from_bytes(data) ==
    LET d == Slice(data, RESPONSE_SIZE)
    IN [version      |-> d[1],
        network      |-> NetworkName(d[2]),
        scheme       |-> SchemeName(d[3]),
        signature    |-> Prefix0x(hex(SubSeq(d, 5, 36)) \o hex(SubSeq(d, 37, 68))
                                  \o hex(<<d[4]>>)),
        nonce        |-> Prefix0x(hex(SubSeq(d, 69, 100))),
        valid_after  |-> UnpackI(d, 101),
        valid_before |-> UnpackI(d, 105)]

\* PaymentResponse.to_bytes
PaymentResponse_to_bytes(r) ==
    <<1, NetworkId(r.network), 0, r.v>>
    \o PackS(r.r, WORD_SIZE) \o PackS(r.s, WORD_SIZE) \o PackS(r.nonce, WORD_SIZE)
    \o PackI(r.valid_after)
    \o PackI(r.valid_before)

\* PaymentResponse.from_bytes, on at least RESPONSE_SIZE bytes
PaymentResponse_from_bytes(data) ==
    LET d == Slice(data, RESPONSE_SIZE)
    IN [v            |-> d[4],
        r            |-> SubSeq(d, 5, 36),
        s            |-> SubSeq(d, 37, 68),
        nonce        |-> SubSeq(d, 69, 100),
        valid_after  |-> UnpackI(d, 101),
        valid_before |-> UnpackI(d, 105),
        network      |-> NetworkName(d[2])]

RequestCodecs == {"CompactPaymentRequest", "PaymentRequest"}
ResponseCodecs == {"CompactPaymentResponse", "PaymentResponse"}
CompactCodecs == {"CompactPaymentRequest", "CompactPaymentResponse"}

\* the size struct.unpack demands of data[:size]
WireSize(codec) == IF codec \in RequestCodecs THEN REQUEST_SIZE ELSE RESPONSE_SIZE

to_bytes(codec, r) ==
    CASE codec = "CompactPaymentRequest" -> CompactPaymentRequest_to_bytes(r)
      [] codec = "PaymentRequest" -> PaymentRequest_to_bytes(r)
      [] codec = "CompactPaymentResponse" -> CompactPaymentResponse_to_bytes(r)
      [] codec = "PaymentResponse" -> PaymentResponse_to_bytes(r)

from_bytes(codec, data) ==
    CASE codec = "CompactPaymentRequest" -> CompactPaymentRequest_from_bytes(data)
      [] codec = "PaymentRequest" -> PaymentRequest_from_bytes(data)
      [] codec = "CompactPaymentResponse" -> CompactPaymentResponse_from_bytes(data)
      [] codec = "PaymentResponse" -> PaymentResponse_from_bytes(data)

\* struct.unpack raises struct.error unless data[:size] has size bytes
UnpackRaises(codec, data) == Len(Slice(data, WireSize(codec))) # WireSize(codec)

-----------------------------------------------------------------------------
(* A modem run: encode_fsk, the air, decode_fsk *)

ByteVals == {165, 255}
FillVals == {0, 165, 255}

\* every payload over ByteVals up to MaxLen bytes
SmallPayloads == UNION {[1..n -> ByteVals] : n \in 0..MaxLen}

\* the record sizes and the sizes around the length byte's range
FillLens == {REQUEST_SIZE, RESPONSE_SIZE, BYTE_RANGE - 1, BYTE_RANGE}

\* n bytes of value b
Fill(n, b) == [i \in 1..n |-> b]

\* first and last slot of the repetition-coded section of encode_fsk(data)
CodedFirst == SilenceSlots + 8 * (PREAMBLE_LEN + 1) + 1
CodedLast(data) == CodedFirst + 8 * REPETITIONS * (Len(data) + 3) - 1

Invert(audio, flips) ==
    [k \in 1..Len(audio) |-> IF k \in flips THEN 1 - audio[k] ELSE audio[k]]

MInit ==
    /\ m_pc = "idle"
    /\ m_data = <<>>
    /\ m_audio = <<>>
    /\ m_lead = 0
    /\ m_flips = {}
    /\ m_amp = ToneAmp
    /\ m_wp = [v \in PowerLevels |-> 0]
    /\ m_thr = None
    /\ m_sync = None
    /\ m_result = NoFrame("none")

Modulate(p) ==
    /\ m_pc = "idle"
    /\ ~EncodeRaises(p)
    /\ m_data' = p
    /\ m_audio' = encode_fsk(p)
    /\ m_pc' = "encoded"
    /\ UNCHANGED <<m_lead, m_flips, m_amp, m_wp, m_thr, m_sync, m_result>>
    /\ UNCHANGED NotModem

ModulateRaises(p) ==
    /\ m_pc = "idle"
    /\ EncodeRaises(p)
    /\ m_data' = p
    /\ m_pc' = "encode_error"
    /\ UNCHANGED <<m_audio, m_lead, m_flips, m_amp, m_wp, m_thr, m_sync, m_result>>
    /\ UNCHANGED NotModem

\* the buffer reaches decode_fsk as it left encode_fsk
CaptureClean ==
    /\ m_pc = "encoded"
    /\ m_pc' = "captured"
    /\ UNCHANGED <<m_data, m_audio, m_lead, m_flips, m_amp, m_wp, m_thr, m_sync, m_result>>
    /\ UNCHANGED NotModem

\* the recording starts `lead` scan steps before the buffer
CaptureShifted(lead) ==
    /\ m_pc = "encoded"
    /\ Len(m_data) <= MaxLen
    /\ m_lead' = lead
    /\ m_pc' = "captured"
    /\ UNCHANGED <<m_data, m_audio, m_flips, m_amp, m_wp, m_thr, m_sync, m_result>>
    /\ UNCHANGED NotModem

\* one slot of the repetition-coded section is received inverted
CaptureFlipped(k) ==
    /\ m_pc = "encoded"
    /\ Len(m_data) <= MaxLen
    /\ k \in CodedFirst..CodedLast(m_data)
    /\ m_flips' = {k}
    /\ m_audio' = Invert(m_audio, {k})
    /\ m_pc' = "captured"
    /\ UNCHANGED <<m_data, m_lead, m_amp, m_wp, m_thr, m_sync, m_result>>
    /\ UNCHANGED NotModem

\* the two slots that carry bit j (1-based) of the payload-plus-CRC section
PairSlots(j) ==
    {CodedFirst + 8 * REPETITIONS + REPETITIONS * (j - 1) + i : i \in 0..(REPETITIONS - 1)}

\* both symbols of one repeated bit of the payload or the CRC are received
\* inverted: any bit of a short payload, the first or the last bit of a
\* request-sized one
CaptureFlippedPair(j) ==
    /\ m_pc = "encoded"
    /\ j <= 8 * (Len(m_data) + 2)
    /\ \/ Len(m_data) <= MaxLen
       \/ Len(m_data) = REQUEST_SIZE /\ j \in {1, 8 * (REQUEST_SIZE + 2)}
    /\ m_flips' = PairSlots(j)
    /\ m_audio' = Invert(m_audio, PairSlots(j))
    /\ m_pc' = "captured"
    /\ UNCHANGED <<m_data, m_lead, m_amp, m_wp, m_thr, m_sync, m_result>>
    /\ UNCHANGED NotModem

\* one second, in scan steps and in symbol slots
SECOND_STEPS == SAMPLE_RATE \div STEP
SECOND_SLOTS == SAMPLE_RATE \div SAMPLES_PER_BIT

\* silence put before the buffer (scan steps) and after it (symbol slots):
\* none, about half a second, one second
PadLeads == {0, (SECOND_STEPS \div 2) + 1, SECOND_STEPS}
PadTrails == {0, SECOND_SLOTS \div 2, SECOND_SLOTS}

\* symbol slots of silence the capture has after the modulator's buffer
Trail == Len(m_audio) - Len(encode_fsk(m_data))

\* pure silence is prepended and appended to the modulator's buffer: every
\* combination for a short payload, whole seconds for a long one
CapturePadded(lead, trail) ==
    /\ m_pc = "encoded"
    /\ lead + trail > 0
    /\ Len(m_data) <= MaxLen \/ (lead = SECOND_STEPS /\ trail \in {0, SECOND_SLOTS})
    /\ m_lead' = lead
    /\ m_audio' = m_audio \o Silence(trail)
    /\ m_pc' = "captured"
    /\ UNCHANGED <<m_data, m_flips, m_amp, m_wp, m_thr, m_sync, m_result>>
    /\ UNCHANGED NotModem

\* the offset, in scan steps, at which the preamble starts when the silence
\* before the buffer has `lead` steps
PreambleStep(lead) == lead + 4 * SilenceSlots

\* the offsets below 10 s, in scan steps
SEARCH_STEPS == (SAMPLE_RATE * MAX_SEARCH_S) \div STEP

\* silences that put the preamble two, one and no step below 10 s, and more
\* than a symbol past it
LateLeads ==
    {SEARCH_STEPS - 4 * SilenceSlots + d : d \in {0 - 2, 0 - 1, 0, 4 * SilenceSlots}}

\* the recording started about ten seconds before the frame; payloads are
\* short, or of the size of a request or a response
CaptureLate(lead) ==
    /\ m_pc = "encoded"
    /\ Len(m_data) <= MaxLen \/ Len(m_data) \in {REQUEST_SIZE, RESPONSE_SIZE}
    /\ m_lead' = lead
    /\ m_pc' = "captured"
    /\ UNCHANGED <<m_data, m_audio, m_flips, m_amp, m_wp, m_thr, m_sync, m_result>>
    /\ UNCHANGED NotModem

\* ui_buyer.py line 613: the amplitude under which a capture is refused, in
\* 1/10000
AMP_GATE == 100

\* amplitudes around the gate, and one under the power test of decode_fsk
QuietAmps == {1, AMP_GATE - 1, AMP_GATE}

\* the frame is recorded faintly: the peak sample of the capture is amp
CaptureQuiet(amp) ==
    /\ m_pc = "encoded"
    /\ Len(m_data) <= MaxLen \/ Len(m_data) \in {REQUEST_SIZE, RESPONSE_SIZE}
    /\ m_amp' = amp
    /\ m_pc' = "captured"
    /\ UNCHANGED <<m_data, m_audio, m_lead, m_flips, m_wp, m_thr, m_sync, m_result>>
    /\ UNCHANGED NotModem

\* capture lengths around the least number of windows, in symbol slots
ShortLens == {MIN_WINDOWS - 1, MIN_WINDOWS, MIN_WINDOWS + 1}

\* amplitudes around the least power of decode_fsk, and that of the modulator
FaintAmps == {1, 2, ToneAmp}

\* the recording starts `lead` scan steps before slot `first` of the buffer
\* and holds n slots of it, at the peak amplitude amp
CaptureSlice(lead, first, n, amp) ==
    /\ m_pc = "encoded"
    /\ Len(m_data) <= MaxLen
    /\ first + n - 1 <= Len(m_audio)
    /\ n \in ShortLens \/ first + n - 1 = Len(m_audio)
    /\ m_lead' = lead
    /\ m_audio' = SubSeq(m_audio, first, first + n - 1)
    /\ m_amp' = amp
    /\ m_pc' = "captured"
    /\ UNCHANGED <<m_data, m_flips, m_wp, m_thr, m_sync, m_result>>
    /\ UNCHANGED NotModem

\* two frames follow each other in the recording: the first with both
\* symbols of bit j flipped (bit 1 the first of the payload, bits -7..0 those
\* of the length byte), the second intact
CaptureTwice(j) ==
    /\ m_pc = "encoded"
    /\ Len(m_data) <= MaxLen
    /\ j <= 8 * (Len(m_data) + 2)
    /\ m_flips' = PairSlots(j)
    /\ m_audio' = Invert(m_audio, PairSlots(j)) \o m_audio
    /\ m_pc' = "captured"
    /\ UNCHANGED <<m_data, m_lead, m_amp, m_wp, m_thr, m_sync, m_result>>
    /\ UNCHANGED NotModem

\* decode_fsk, lines 180-200: filter, window powers; too few windows fail
Windows ==
    /\ m_pc = "captured"
    /\ IF NumWindows < MIN_WINDOWS
       THEN m_result' = NoFrame("windows") /\ m_pc' = "decoded" /\ UNCHANGED m_wp
       ELSE m_wp' = WindowPowers /\ m_pc' = "windowed" /\ UNCHANGED m_result
    /\ UNCHANGED <<m_data, m_audio, m_lead, m_flips, m_amp, m_thr, m_sync>>
    /\ UNCHANGED NotModem

\* decode_fsk, lines 202-213: no tone power fails, else the adaptive threshold
Threshold ==
    /\ m_pc = "windowed"
    /\ IF PowerE8(MaxPower) < 1
       THEN m_result' = NoFrame("power") /\ m_pc' = "decoded" /\ UNCHANGED m_thr
       ELSE m_thr' = Threshold200 /\ m_pc' = "filtered" /\ UNCHANGED m_result
    /\ UNCHANGED <<m_data, m_audio, m_lead, m_flips, m_amp, m_wp, m_sync>>
    /\ UNCHANGED NotModem

\* variant: the scan goes on to the first offset whose frame decodes
SyncScanRetry ==
    /\ m_pc = "filtered"
    /\ LET valid == {k \in 0..(NumOffsets - 1) :
                        /\ SyncAt(k * STEP) # None
                        /\ RecoveredFrom(SyncAt(k * STEP)).ok}
       IN m_sync' = IF valid = {} THEN BestSyncPos
                    ELSE SyncAt(STEP * (CHOOSE k \in valid : \A i \in valid : k <= i))
    /\ IF m_sync' = None
       THEN m_result' = NoFrame("sync") /\ m_pc' = "decoded"
       ELSE m_pc' = "synced" /\ UNCHANGED m_result
    /\ UNCHANGED <<m_data, m_audio, m_lead, m_flips, m_amp, m_wp, m_thr>>
    /\ UNCHANGED NotModem

\* decode_fsk, lines 260-294
SyncScan ==
    /\ m_pc = "filtered"
    /\ m_sync' = BestSyncPos
    /\ IF m_sync' = None
       THEN m_result' = NoFrame("sync") /\ m_pc' = "decoded"
       ELSE m_pc' = "synced" /\ UNCHANGED m_result
    /\ UNCHANGED <<m_data, m_audio, m_lead, m_flips, m_amp, m_wp, m_thr>>
    /\ UNCHANGED NotModem

\* decode_fsk, lines 296-320
PayloadRecovery ==
    /\ m_pc = "synced"
    /\ m_result' = Recovered
    /\ m_pc' = "decoded"
    /\ UNCHANGED <<m_data, m_audio, m_lead, m_flips, m_amp, m_wp, m_thr, m_sync>>
    /\ UNCHANGED NotModem


-----------------------------------------------------------------------------
(* A codec run: to_bytes, the wire, from_bytes *)

\* s repeated n times
Rep(s, n) == [k \in 1..(n * Len(s)) |-> s[((k - 1) % Len(s)) + 1]]

\* the address of test_compact_encoding, as written there and in lower case
AddrMixed ==
    <<"0", "x", "5", "b", "1", "2", "E", "A", "8", "D", "C", "4", "f", "3",
      "7", "F", "4", "9", "9", "8", "d", "5", "A", "1", "B", "C", "f", "6",
      "3", "A", "c", "9", "d", "6", "f", "d", "8", "9", "b", "d", "4", "e">>
AddrLower ==
    <<"0", "x", "5", "b", "1", "2", "e", "a", "8", "d", "c", "4", "f", "3",
      "7", "f", "4", "9", "9", "8", "d", "5", "a", "1", "b", "c", "f", "6",
      "3", "a", "c", "9", "d", "6", "f", "d", "8", "9", "b", "d", "4", "e">>

\* 1700000000, 1700000060 and 0xFFFFFFFF as 32-bit quantities
Ts2023 == <<25939, 61696>>
Ts2023Plus60 == <<25939, 61756>>
U32Max == <<U16_MAX, U16_MAX>>

NetworkInputs == DOMAIN NETWORKS \cup {"polygon"}
PriceInputs == {<<0, 1000>>, U32Max, <<U16_RANGE, 0>>}
TimeoutInputs == {60, U16_MAX, U16_RANGE}
NonceInputs == {1, BYTE_RANGE - 1}

CompactRequestInputs ==
    [version : {1, 2}, network : NetworkInputs, scheme : {"exact", "upto"},
     price : PriceInputs, pay_to : {AddrMixed, AddrLower},
     asset : {AssetOf("base-sepolia")}, timeout : TimeoutInputs, nonce : NonceInputs]

PaymentRequestInputs ==
    [pay_to : {AddrMixed, AddrLower}, price : PriceInputs, timeout : TimeoutInputs,
     network : NetworkInputs, nonce : NonceInputs]

\* 65-byte signatures r + s + v, and one without its v byte
SigLower == Prefix0x(Rep(<<"a", "b">>, 32) \o Rep(<<"c", "d">>, 32) \o <<"1", "b">>)
SigUpper == Prefix0x(Rep(<<"A", "B">>, 32) \o Rep(<<"C", "D">>, 32) \o <<"1", "C">>)
SigNoV == Prefix0x(Rep(<<"a", "b">>, 32) \o Rep(<<"c", "d">>, 32))

CompactResponseInputs ==
    [version : {1}, network : {"base-sepolia", "ethereum-sepolia"},
     scheme : {"exact", "upto"}, signature : {SigLower, SigUpper, SigNoV},
     nonce : {Prefix0x(Rep(<<"e", "f">>, 32)), Prefix0x(Rep(<<"E", "F">>, 32))},
     valid_after : {<<0, 0>>, Ts2023}, valid_before : {Ts2023Plus60, U32Max}]

PaymentResponseInputs ==
    [v : {DEFAULT_V, DEFAULT_V + 1}, r : {Fill(WORD_SIZE, 171)}, s : {Fill(WORD_SIZE, 205)},
     nonce : {Fill(WORD_SIZE, 239), Fill(WORD_SIZE, 0)},
     valid_after : {<<0, 0>>, Ts2023}, valid_before : {Ts2023Plus60, U32Max},
     network : {"base-sepolia", "ethereum-sepolia"}]

\* trailing bytes a received buffer may carry
Tails == UNION {[1..n -> {0, 255}] : n \in 1..MaxTail}

\* network and scheme IDs a received buffer may carry
WireIds == {0, 3, 4, 255}

NoRecord == [none |-> TRUE]

CInit ==
    /\ c_pc = "idle"
    /\ c_codec = "none"
    /\ c_rec = NoRecord
    /\ c_wire = <<>>
    /\ c_how = "none"
    /\ c_out = NoRecord

\* record.to_bytes()
Encode(codec, r) ==
    /\ c_pc = "idle"
    /\ c_codec' = codec
    /\ c_rec' = r
    /\ c_wire' = to_bytes(codec, r)
    /\ c_pc' = "encoded"
    /\ UNCHANGED <<c_how, c_out>>
    /\ UNCHANGED NotCodec

\* bytes.fromhex(s) raises ValueError: an odd number of digits, or a
\* character that is no hexadecimal digit
fromhexRaises(s) ==
    \/ Len(s) % 2 = 1
    \/ \E i \in 1..Len(s) :
          s[i] \notin {"0", "1", "2", "3", "4", "5", "6", "7", "8", "9", "a", "b", "c",
                       "d", "e", "f", "A", "B", "C", "D", "E", "F"}

\* to_bytes of a response raises: bytes.fromhex on the signature or the nonce
\* (compact_x402.py lines 174, 183), or struct.pack on a v that is no byte
ResponseToBytesRaises(codec, r) ==
    IF codec = "CompactPaymentResponse"
    THEN fromhexRaises(Strip0x(r.signature)) \/ fromhexRaises(Strip0x(r.nonce))
    ELSE r.v \notin 0..(BYTE_RANGE - 1)

\* signatures of 65, 64, 10 and 70 bytes, one with an odd number of digits,
\* one with a character that is no digit
SigShapes ==
    {SigLower, SigNoV, Prefix0x(Rep(<<"a", "b">>, 10)),
     SigLower \o Rep(<<"0", "1">>, 5), Prefix0x(Rep(<<"a">>, 129)),
     Prefix0x(Rep(<<"z", "z">>, 65))}

\* nonces of 32 bytes with and without "0x", of 16 and 40 bytes, and one
\* with a character that is no digit
NonceShapes ==
    {Prefix0x(Rep(<<"e", "f">>, 32)), Rep(<<"e", "f">>, 32),
     Prefix0x(Rep(<<"e", "f">>, 16)), Prefix0x(Rep(<<"e", "f">>, 40)),
     Prefix0x(Rep(<<"e", "g">>, 32))}

ShapedCompactResponses ==
    [version : {1}, network : {"base-sepolia"}, scheme : {"exact"},
     signature : SigShapes, nonce : NonceShapes,
     valid_after : {<<0, 0>>}, valid_before : {Ts2023Plus60}]

\* r, s and nonce of 32 bytes, shorter and longer; a v that is no byte
ShapedPaymentResponses ==
    [v : {DEFAULT_V, BYTE_RANGE},
     r : {Fill(WORD_SIZE, 171), Fill(WORD_SIZE - 1, 171), Fill(WORD_SIZE + 1, 171)},
     s : {Fill(WORD_SIZE, 205), <<>>},
     nonce : {Fill(WORD_SIZE, 239), Fill(WORD_SIZE \div 2, 239)},
     valid_after : {<<0, 0>>}, valid_before : {Ts2023Plus60},
     network : {"base-sepolia"}]

\* response.to_bytes() on a record of any shape: it raises, or returns bytes
EncodeShaped(codec, r) ==
    /\ c_pc = "idle"
    /\ c_codec' = codec
    /\ c_rec' = r
    /\ IF ResponseToBytesRaises(codec, r)
       THEN c_pc' = "encode_error" /\ UNCHANGED c_wire
       ELSE c_pc' = "encoded" /\ c_wire' = to_bytes(codec, r)
    /\ UNCHANGED <<c_how, c_out>>
    /\ UNCHANGED NotCodec

\* the receiver gets the encoded buffer as it is
Deliver ==
    /\ c_pc = "encoded"
    /\ c_how' = "intact"
    /\ c_pc' = "received"
    /\ UNCHANGED <<c_codec, c_rec, c_wire, c_out>>
    /\ UNCHANGED NotCodec

\* the receiver gets only the first n bytes
Truncate(n) ==
    /\ c_pc = "encoded"
    /\ n < Len(c_wire)
    /\ c_wire' = SubSeq(c_wire, 1, n)
    /\ c_how' = "truncated"
    /\ c_pc' = "received"
    /\ UNCHANGED <<c_codec, c_rec, c_out>>
    /\ UNCHANGED NotCodec

\* the receiver gets the buffer followed by more bytes
Extend(tail) ==
    /\ c_pc = "encoded"
    /\ c_wire' = c_wire \o tail
    /\ c_how' = "extended"
    /\ c_pc' = "received"
    /\ UNCHANGED <<c_codec, c_rec, c_out>>
    /\ UNCHANGED NotCodec

\* the receiver gets a buffer with other network and scheme IDs
SetIds(network_id, scheme_id) ==
    /\ c_pc = "encoded"
    /\ c_wire' = [c_wire EXCEPT ![2] = network_id, ![3] = scheme_id]
    /\ c_how' = "ids"
    /\ c_pc' = "received"
    /\ UNCHANGED <<c_codec, c_rec, c_out>>
    /\ UNCHANGED NotCodec

\* the class of the other module that reads the same wire format
Peer(codec) ==
    CASE codec = "CompactPaymentRequest" -> "PaymentRequest"
      [] codec = "PaymentRequest" -> "CompactPaymentRequest"
      [] codec = "CompactPaymentResponse" -> "PaymentResponse"
      [] codec = "PaymentResponse" -> "CompactPaymentResponse"

\* the other module's cls.from_bytes(data) on the bytes this class wrote
DecodeByPeer ==
    /\ c_pc = "received"
    /\ IF UnpackRaises(Peer(c_codec), c_wire)
       THEN c_pc' = "decode_error" /\ UNCHANGED c_out
       ELSE c_out' = from_bytes(Peer(c_codec), c_wire) /\ c_pc' = "decoded"
    /\ c_how' = "peer"
    /\ UNCHANGED <<c_codec, c_rec, c_wire>>
    /\ UNCHANGED NotCodec

\* cls.from_bytes(data)
Decode ==
    /\ c_pc = "received"
    /\ IF UnpackRaises(c_codec, c_wire)
       THEN c_pc' = "decode_error" /\ UNCHANGED c_out
       ELSE c_out' = from_bytes(c_codec, c_wire) /\ c_pc' = "decoded"
    /\ UNCHANGED <<c_codec, c_rec, c_wire, c_how>>
    /\ UNCHANGED NotCodec

-----------------------------------------------------------------------------
(* ui_seller.py: the seller's endpoints and run_seller_flow.  Every POST     *)
(* /start spawns a thread; the threads share the module-level state dict     *)
(* and the sound device.  Time is counted in seconds while a thread sleeps.  *)

PAUSE_S == 8
REQUEST_PRICE == 1000
REQUEST_TIMEOUT == 120

\* os.getenv("SELLER_ADDRESS"), os.getenv("BUYER_ADDRESS")
SELLER_ADDRESS == AddrMixed
BUYER_ADDRESS == Prefix0x(Rep(<<"1", "2", "A", "b">>, 10))

SellerThreads == 1..MaxStarts

\* what decode_fsk hands back: None, or a payload
NoPayload == [ok |-> FALSE, payload |-> <<>>]
Returned(payload) == [ok |-> TRUE, payload |-> payload]

\* the state dict at import time (lines 26-34) and after /reset (486-493),
\* where the "amplitude" key is missing (None here)
SellerState0 ==
    [status |-> "idle", step |-> 0, request |-> NoRecord, verified |-> FALSE,
     secret |-> FALSE, amplitude |-> 0]
SellerStateReset == [SellerState0 EXCEPT !.amplitude = None]

\* besides its position and locals a thread carries what it did: the last
\* step it wrote, how its flow ended, and whether /reset was served since
\* it was spawned
SellerThread0 ==
    [pc |-> "none", slept |-> 0, request |-> NoRecord, response |-> NoPayload,
     params |-> NoRecord, tx |-> NoRecord, step |-> 0, ended |-> "no",
     stale |-> FALSE]

\* a thread that returned: its locals are gone
SellerThreadDone == [SellerThread0 EXCEPT !.pc = "done"]

\* thread t returns, its flow having ended as `how` says
SellerEnds(t, how) ==
    [SellerThreadDone EXCEPT !.step = s_thread[t].step, !.ended = how,
                             !.stale = s_thread[t].stale]

\* int(time.time()) % 256 at the moments modelled
RequestNonces == {7}

\* responses a buyer may have encoded
HeardResponses ==
    {CompactPaymentResponse_to_bytes(r) :
        r \in [version : {1}, network : {"base-sepolia"}, scheme : {"exact"},
               signature : {SigLower, SigUpper},
               nonce : {Prefix0x(Rep(<<"e", "f">>, 32))},
               valid_after : {<<0, 0>>}, valid_before : {Ts2023Plus60}]}

\* variant: r and s change places
to_settlement_params_swapped(response, from_address, request) ==
    [from_address |-> from_address,
     to           |-> request.pay_to,
     value        |-> request.price,
     valid_after  |-> response.valid_after,
     valid_before |-> response.valid_before,
     nonce        |-> Prefix0x(hex(response.nonce)),
     v            |-> response.v,
     r            |-> Prefix0x(hex(response.s)),
     s            |-> Prefix0x(hex(response.r))]

\* PaymentResponse.to_settlement_params
to_settlement_params(response, from_address, request) ==
    [from_address |-> from_address,
     to           |-> request.pay_to,
     value        |-> request.price,
     valid_after  |-> response.valid_after,
     valid_before |-> response.valid_before,
     nonce        |-> Prefix0x(hex(response.nonce)),
     v            |-> response.v,
     r            |-> Prefix0x(hex(response.r)),
     s            |-> Prefix0x(hex(response.s))]

\* settle_payment, lines 94-108: the arguments of transferWithAuthorization;
\* an address is taken as the 20 bytes it denotes
TransferArgs(request) ==
    [from_address |-> fromhex(Strip0x(request.from_address)),
     to           |-> fromhex(Strip0x(request.to)),
     value        |-> request.value,
     valid_after  |-> request.valid_after,
     valid_before |-> request.valid_before,
     nonce        |-> fromhex(Strip0x(request.nonce)),
     v            |-> request.v,
     r            |-> fromhex(Strip0x(request.r)),
     s            |-> fromhex(Strip0x(request.s))]

\* what decode_fsk may hand back for the seller's capture: None, an empty
\* payload, the 30 bytes of a request, or a response
SellerHears ==
    {NoPayload, Returned(<<>>), Returned(Fill(REQUEST_SIZE, 1))}
    \cup {Returned(b) : b \in HeardResponses}

SInit ==
    /\ s_state = SellerState0
    /\ s_thread = [t \in SellerThreads |-> SellerThread0]

\* POST /start: a thread is spawned, whatever the state
SellerStart(t) ==
    /\ s_thread[t].pc = "none"
    /\ \A u \in SellerThreads : u < t => s_thread[u].pc # "none"
    /\ s_thread' = [s_thread EXCEPT ![t].pc = "spawned"]
    /\ UNCHANGED s_state
    /\ UNCHANGED NotSeller

\* POST /reset: the dict is replaced; running threads are left alone
SellerReset ==
    /\ s_state' = SellerStateReset
    /\ s_thread' = [t \in SellerThreads |->
                      IF s_thread[t].pc = "none" THEN s_thread[t]
                      ELSE [s_thread[t] EXCEPT !.stale = TRUE]]
    /\ UNCHANGED NotSeller

\* lines 510-531: the request is built, encoded, and the thread sleeps 1 s
SellerBroadcast(t, nonce) ==
    /\ s_thread[t].pc = "spawned"
    /\ LET request == [pay_to |-> SELLER_ADDRESS, price |-> <<0, REQUEST_PRICE>>,
                       timeout |-> REQUEST_TIMEOUT, network |-> "base-sepolia",
                       nonce |-> nonce]
       IN /\ s_state' = [s_state EXCEPT !.step = 1, !.status = "playing",
                                        !.request = request]
          /\ s_thread' = [s_thread EXCEPT ![t].pc = "ready", ![t].request = request,
                                           ![t].step = 1]
    /\ UNCHANGED NotSeller

\* line 532: sd.play starts the playback, or raises (lines 598-600)
SellerPlay(t, started) ==
    /\ s_thread[t].pc = "ready"
    /\ IF started
       THEN /\ s_thread' = [s_thread EXCEPT ![t].pc = "playing"]
            /\ UNCHANGED s_state
       ELSE /\ s_thread' = [s_thread EXCEPT ![t] = SellerEnds(t, "play")]
            /\ s_state' = [s_state EXCEPT !.status = "error"]
    /\ UNCHANGED NotSeller

\* lines 533-540: sd.wait returns, the state says listening, sleep(8) begins
SellerPlayed(t) ==
    /\ s_thread[t].pc = "playing"
    /\ s_state' = [s_state EXCEPT !.step = 2, !.status = "listening"]
    /\ s_thread' = [s_thread EXCEPT ![t].pc = "pause", ![t].slept = 0, ![t].step = 2]
    /\ UNCHANGED NotSeller

\* one second passes for every thread in sleep(8)
SellerTick ==
    /\ \E t \in SellerThreads : s_thread[t].pc = "pause" /\ s_thread[t].slept < PAUSE_S
    /\ s_thread' = [t \in SellerThreads |->
                      IF s_thread[t].pc = "pause" /\ s_thread[t].slept < PAUSE_S
                      THEN [s_thread[t] EXCEPT !.slept = @ + 1]
                      ELSE s_thread[t]]
    /\ UNCHANGED s_state
    /\ UNCHANGED NotSeller

\* lines 540-556: sleep(8) is over, the input stream is opened, or
\* sd.InputStream raises (lines 598-600)
SellerListen(t, opened) ==
    /\ s_thread[t].pc = "pause"
    /\ s_thread[t].slept >= PAUSE_S
    /\ IF opened
       THEN /\ s_thread' = [s_thread EXCEPT ![t].pc = "capturing"]
            /\ UNCHANGED s_state
       ELSE /\ s_thread' = [s_thread EXCEPT ![t] = SellerEnds(t, "record")]
            /\ s_state' = [s_state EXCEPT !.status = "error"]
    /\ UNCHANGED NotSeller

\* lines 549-554: audio_callback stores the level of one block
SellerCallback(t, level) ==
    /\ s_thread[t].pc = "capturing"
    /\ s_state' = [s_state EXCEPT !.amplitude = level]
    /\ UNCHANGED s_thread
    /\ UNCHANGED NotSeller

\* lines 557-572: the stream is closed, the state says verifying
SellerCaptured(t) ==
    /\ s_thread[t].pc = "capturing"
    /\ s_state' = [s_state EXCEPT !.amplitude = 0, !.step = 3, !.status = "verifying"]
    /\ s_thread' = [s_thread EXCEPT ![t].pc = "verifying", ![t].step = 3]
    /\ UNCHANGED NotSeller

\* variant: after a failed decode the thread records again
SellerVerifyRetry(t, heard) ==
    /\ s_thread[t].pc = "verifying"
    /\ IF ~heard.ok \/ heard.payload = <<>>
       THEN /\ s_state' = [s_state EXCEPT !.status = "listening"]
            /\ s_thread' = [s_thread EXCEPT ![t].pc = "capturing"]
       ELSE IF UnpackRaises("PaymentResponse", heard.payload)
       THEN /\ s_state' = [s_state EXCEPT !.status = "error"]
            /\ s_thread' = [s_thread EXCEPT ![t] = SellerEnds(t, "unpack")]
       ELSE /\ s_thread' =
                 [s_thread EXCEPT
                    ![t].pc = "settling",
                    ![t].response = heard,
                    ![t].params = to_settlement_params(
                                      PaymentResponse_from_bytes(heard.payload),
                                      BUYER_ADDRESS, s_thread[t].request)]
            /\ UNCHANGED s_state
    /\ UNCHANGED NotSeller

\* lines 574-585: decode_fsk, from_bytes, to_settlement_params.  A missing or
\* empty payload ends the flow; a payload under 108 bytes raises struct.error,
\* which line 598 catches.
SellerVerify(t, heard) ==
    /\ s_thread[t].pc = "verifying"
    /\ IF ~heard.ok \/ heard.payload = <<>>
             \/ UnpackRaises("PaymentResponse", heard.payload)
       THEN /\ s_state' = [s_state EXCEPT !.status = "error"]
            /\ s_thread' =
                 [s_thread EXCEPT
                    ![t] = SellerEnds(t, IF ~heard.ok \/ heard.payload = <<>>
                                         THEN "decode" ELSE "unpack")]
       ELSE /\ s_thread' =
                 [s_thread EXCEPT
                    ![t].pc = "settling",
                    ![t].response = heard,
                    ![t].params = to_settlement_params(
                                      PaymentResponse_from_bytes(heard.payload),
                                      BUYER_ADDRESS, s_thread[t].request)]
            /\ UNCHANGED s_state
    /\ UNCHANGED NotSeller

\* settle_payment, lines 84-119: it raises before the transfer is built (no
\* key, no connection), or builds the transfer and sends it
SellerSubmit(t, online) ==
    /\ s_thread[t].pc = "settling"
    /\ IF online
       THEN /\ s_thread' = [s_thread EXCEPT ![t].pc = "submitted",
                                            ![t].tx = TransferArgs(s_thread[t].params)]
            /\ UNCHANGED s_state
       ELSE /\ s_thread' = [s_thread EXCEPT ![t] = SellerEnds(t, "settle")]
            /\ s_state' = [s_state EXCEPT !.status = "error"]
    /\ UNCHANGED NotSeller

\* variant: an error of settle_payment is swallowed, the thread returns
\* without writing the status
SellerSettledSilent(t, receipt_ok) ==
    /\ s_thread[t].pc = "submitted"
    /\ s_thread' = [s_thread EXCEPT
                      ![t] = SellerEnds(t, IF receipt_ok THEN "settled" ELSE "settle")]
    /\ s_state' = IF receipt_ok
                  THEN [s_state EXCEPT !.status = "success", !.verified = TRUE,
                                       !.secret = TRUE]
                  ELSE s_state
    /\ UNCHANGED NotSeller

\* settle_payment, lines 122-127, and lines 588-596: the receipt says the
\* transfer succeeded, or settle_payment raises
SellerSettled(t, receipt_ok) ==
    /\ s_thread[t].pc = "submitted"
    /\ s_thread' = [s_thread EXCEPT
                      ![t] = SellerEnds(t, IF receipt_ok THEN "settled" ELSE "settle")]
    /\ s_state' = IF receipt_ok
                  THEN [s_state EXCEPT !.status = "success", !.verified = TRUE,
                                       !.secret = TRUE]
                  ELSE [s_state EXCEPT !.status = "error"]
    /\ UNCHANGED NotSeller

-----------------------------------------------------------------------------
(* ui_buyer.py: the buyer's endpoints and run_buyer_flow *)

BuyerThreads == 1..MaxStarts

\* the dict /start installs (lines 542-550); /reset installs the idle one.
\* Neither has the "amplitude" key (None here); a price of None is <<>>.
BuyerStateStart ==
    [status |-> "listening", step |-> 1, request_decoded |-> FALSE,
     payment_sent |-> FALSE, price |-> <<>>, amplitude |-> None]
BuyerStateReset == [BuyerStateStart EXCEPT !.status = "idle", !.step = 0]

\* the dict at import time (lines 40-50): idle, with the amplitude 0.0
BuyerState0 == [BuyerStateReset EXCEPT !.amplitude = 0]

BuyerThread0 ==
    [pc |-> "none", request |-> NoRecord, response |-> <<>>, step |-> 0,
     ended |-> "no", stale |-> FALSE]

\* a thread that returned: its locals are gone
BuyerThreadDone == [BuyerThread0 EXCEPT !.pc = "done"]

\* thread t returns, its flow having ended as `how` says
BuyerEnds(t, how) ==
    [BuyerThreadDone EXCEPT !.step = b_thread[t].step, !.ended = how,
                            !.stale = b_thread[t].stale]

\* what the buyer's capture may decode to: None, an empty payload, a payload
\* under 30 bytes, or a request a seller encoded
BuyerHears ==
    {NoPayload, Returned(<<>>), Returned(Fill(REQUEST_SIZE - 1, 1))}
    \cup {Returned(PaymentRequest_to_bytes(
                      [pay_to |-> SELLER_ADDRESS, price |-> <<0, REQUEST_PRICE>>,
                       timeout |-> REQUEST_TIMEOUT, network |-> "base-sepolia",
                       nonce |-> n])) : n \in RequestNonces}

BInit ==
    /\ b_state = BuyerState0
    /\ b_thread = [t \in BuyerThreads |-> BuyerThread0]

\* POST /start: the dict is replaced and a thread is spawned
BuyerStart(t) ==
    /\ b_thread[t].pc = "none"
    /\ \A u \in BuyerThreads : u < t => b_thread[u].pc # "none"
    /\ b_state' = BuyerStateStart
    /\ b_thread' = [b_thread EXCEPT ![t].pc = "spawned"]
    /\ UNCHANGED NotBuyer

\* POST /reset
BuyerReset ==
    /\ b_state' = BuyerStateReset
    /\ b_thread' = [t \in BuyerThreads |->
                      IF b_thread[t].pc = "none" THEN b_thread[t]
                      ELSE [b_thread[t] EXCEPT !.stale = TRUE]]
    /\ UNCHANGED NotBuyer

\* lines 564-590: the flags are cleared and the input stream is opened; a
\* stream that cannot be opened is a recording error (lines 597-600)
BuyerListen(t, opened) ==
    /\ b_thread[t].pc = "spawned"
    /\ b_state' = [b_state EXCEPT !.status = IF opened THEN "listening" ELSE "error",
                                  !.step = 1, !.request_decoded = FALSE,
                                  !.payment_sent = FALSE]
    /\ b_thread' = [b_thread EXCEPT
                      ![t] = IF opened
                             THEN [b_thread[t] EXCEPT !.pc = "capturing", !.step = 1]
                             ELSE [BuyerEnds(t, "record") EXCEPT !.step = 1]]
    /\ UNCHANGED NotBuyer

\* lines 584-588: audio_callback stores the level of one block
BuyerCallback(t, level) ==
    /\ b_thread[t].pc = "capturing"
    /\ b_state' = [b_state EXCEPT !.amplitude = level]
    /\ UNCHANGED b_thread
    /\ UNCHANGED NotBuyer

\* lines 591-634: the stream is closed; a capture under 0.01 of amplitude, a
\* failed decode, an empty payload and a payload under 30 bytes end the flow
\* with an error; else the request is decoded and the state says signing
BuyerCaptured(t, loud, heard) ==
    /\ b_thread[t].pc = "capturing"
    /\ IF ~loud \/ ~heard.ok \/ heard.payload = <<>>
             \/ UnpackRaises("CompactPaymentRequest", heard.payload)
       THEN /\ b_state' = [b_state EXCEPT !.amplitude = 0, !.status = "error"]
            /\ b_thread' =
                 [b_thread EXCEPT
                    ![t] = BuyerEnds(t, IF ~loud THEN "quiet"
                                        ELSE IF ~heard.ok \/ heard.payload = <<>>
                                        THEN "decode" ELSE "unpack")]
       ELSE /\ b_state' = [b_state EXCEPT
                             !.amplitude = 0, !.request_decoded = TRUE,
                             !.price = CompactPaymentRequest_from_bytes(heard.payload).price,
                             !.step = 2, !.status = "signing"]
            /\ b_thread' = [b_thread EXCEPT
                              ![t].pc = "signing", ![t].step = 2,
                              ![t].request = CompactPaymentRequest_from_bytes(heard.payload)]
    /\ UNCHANGED NotBuyer

\* lines 634-652: the x402 client signs, or raises; the response is encoded
BuyerSign(t, signed) ==
    /\ b_thread[t].pc = "signing"
    /\ IF signed \in HeardResponses
       THEN /\ b_thread' = [b_thread EXCEPT ![t].pc = "signed", ![t].response = signed]
            /\ UNCHANGED b_state
       ELSE /\ b_thread' = [b_thread EXCEPT ![t] = BuyerEnds(t, "sign")]
            /\ b_state' = [b_state EXCEPT !.status = "error"]
    /\ UNCHANGED NotBuyer

\* lines 652-666: after sleep(1) the state says playing and sd.play starts,
\* or raises (lines 673-675)
BuyerPlay(t, started) ==
    /\ b_thread[t].pc = "signed"
    /\ b_state' = [b_state EXCEPT !.step = 3,
                                  !.status = IF started THEN "playing" ELSE "error"]
    /\ b_thread' = [b_thread EXCEPT
                      ![t] = IF started
                             THEN [b_thread[t] EXCEPT !.pc = "playing", !.step = 3]
                             ELSE [BuyerEnds(t, "play") EXCEPT !.step = 3]]
    /\ UNCHANGED NotBuyer

\* lines 667-671: sd.wait returns
BuyerPlayed(t) ==
    /\ b_thread[t].pc = "playing"
    /\ b_state' = [b_state EXCEPT !.status = "success", !.payment_sent = TRUE]
    /\ b_thread' = [b_thread EXCEPT ![t] = BuyerEnds(t, "sent")]
    /\ UNCHANGED NotBuyer

-----------------------------------------------------------------------------
(* One exchange on the clock.  Times are milliseconds after the seller's     *)
(* POST /start; the buyer's POST /start comes `offset` ms after it (before   *)
(* it when negative).  An interval is a pair <<from, to>>.                    *)

\* ms of one byte of the header
BYTE_MS == 8 * BIT_DURATION_MS

SELLER_LEAD_S == 1
SELLER_LISTEN_PAYLOAD == 108
SELLER_LISTEN_PAD_S == 5
BUYER_CAPTURE_PAYLOAD == 54
BUYER_CAPTURE_PAD_S == 8
BUYER_SLEEP_S == 1

\* the buyer's start against the seller's, every 40 ms (half a header byte)
\* from MaxEarly such steps before it to MaxLate after it
Offsets == {(BYTE_MS \div 2) * k : k \in (0 - MaxEarly)..MaxLate}

\* the time the buyer takes to decode and to sign, besides its two sleeps
Lags == {0, 2000}

TimingRun0 ==
    [pc |-> "idle", offset |-> 0, lag |-> 0, request |-> <<0, 0>>,
     capture |-> <<0, 0>>, recovered |-> FALSE, response |-> <<0, 0>>,
     window |-> <<0, 0>>, heard |-> FALSE]

TInit == t_run = TimingRun0

\* the tone section of a buffer played over `played`: encode_fsk puts 0.2 s
\* of silence before and after it
ToneSection(played) == <<played[1] + SILENCE_MS, played[2] - SILENCE_MS>>

\* the interval a is inside the interval b
Inside(a, b) == b[1] <= a[1] /\ a[2] <= b[2]

\* the starts of the second, third and fourth preamble byte: where the scan
\* can accept AA AA AA 55, AA AA 55, AA 55
SyncStarts(tone) == {tone[1] + k * BYTE_MS : k \in 1..(PREAMBLE_LEN - 1)}

\* decode_fsk on the recording `capture` of a frame whose tone section is
\* `tone`: the frame is recovered when the recording holds it from one of
\* those preamble bytes to its end, and that byte starts less than 10 s into
\* the recording (line 267)
Recovers(capture, tone) ==
    \E at \in SyncStarts(tone) :
        /\ capture[1] <= at
        /\ at - capture[1] < MAX_SEARCH_S * 1000
        /\ tone[2] <= capture[2]

\* both POST /start requests have been served
TimingStart(offset, lag) ==
    /\ t_run.pc = "idle"
    /\ t_run' = [t_run EXCEPT !.pc = "started", !.offset = offset, !.lag = lag]
    /\ UNCHANGED NotTiming

\* ui_seller.py lines 531-533: sleep(1), then the request is played
SellerPlaysRequest ==
    /\ t_run.pc = "started"
    /\ t_run' = [t_run EXCEPT
                   !.pc = "requested",
                   !.request = <<SELLER_LEAD_S * 1000,
                                 SELLER_LEAD_S * 1000 + get_duration(REQUEST_SIZE)>>]
    /\ UNCHANGED NotTiming

\* ui_buyer.py lines 577-618: the buyer records from its start on, for
\* get_duration(54) + 8 seconds, and decodes
BuyerRecords ==
    /\ t_run.pc = "requested"
    /\ LET capture == <<t_run.offset,
                        t_run.offset + get_duration(BUYER_CAPTURE_PAYLOAD)
                        + BUYER_CAPTURE_PAD_S * 1000>>
       IN t_run' = [t_run EXCEPT
                      !.pc = "recorded",
                      !.capture = capture,
                      !.recovered = Recovers(capture, ToneSection(t_run.request))]
    /\ UNCHANGED NotTiming

\* ui_buyer.py lines 620-623: no request, the buyer's flow ends
BuyerGivesUp ==
    /\ t_run.pc = "recorded"
    /\ ~t_run.recovered
    /\ t_run' = [t_run EXCEPT !.pc = "given_up"]
    /\ UNCHANGED NotTiming

\* ui_buyer.py lines 625-667: sleep(1), signing, sleep(1), the response is
\* played
BuyerPlaysResponse ==
    /\ t_run.pc = "recorded"
    /\ t_run.recovered
    /\ LET start == t_run.capture[2] + t_run.lag + 2 * BUYER_SLEEP_S * 1000
       IN t_run' = [t_run EXCEPT
                      !.pc = "responded",
                      !.response = <<start, start + get_duration(RESPONSE_SIZE)>>]
    /\ UNCHANGED NotTiming

\* ui_seller.py lines 533-557: sleep(8) after the playback, then the seller
\* records for get_duration(108) + 5 seconds
SellerRecords ==
    /\ t_run.pc = "responded"
    /\ LET open   == t_run.request[2] + PAUSE_S * 1000
           window == <<open, open + get_duration(SELLER_LISTEN_PAYLOAD)
                                  + SELLER_LISTEN_PAD_S * 1000>>
       IN t_run' = [t_run EXCEPT
                      !.pc = "listened",
                      !.window = window,
                      !.heard = Inside(ToneSection(t_run.response), window)]
    /\ UNCHANGED NotTiming

-----------------------------------------------------------------------------
(* Calls of the helpers of fsk_modem.py *)

UInit ==
    /\ u_fn = "none"
    /\ u_arg = <<>>
    /\ u_out = <<>>

\* get_duration(data_length)
Duration(data_length) ==
    /\ u_fn = "none"
    /\ u_fn' = "get_duration"
    /\ u_arg' = <<data_length>>
    /\ u_out' = <<get_duration(data_length)>>
    /\ UNCHANGED NotHelper

\* the ASCII bytes of "123456789"
CheckString == <<49, 50, 51, 52, 53, 54, 55, 56, 57>>

\* byte sequences given to crc16: none, the check string, every single byte,
\* short payloads, a request-sized one
CrcInputs ==
    {<<>>, CheckString, Fill(REQUEST_SIZE, BYTE_RANGE - 1)}
    \cup {<<b>> : b \in 0..(BYTE_RANGE - 1)} \cup SmallPayloads

\* crc16(data)
Crc(data) ==
    /\ u_fn = "none"
    /\ u_fn' = "crc16"
    /\ u_arg' = data
    /\ u_out' = <<crc16(data)>>
    /\ UNCHANGED NotHelper

\* len(encode_fsk(data)): the samples of the returned audio
Samples(data) ==
    /\ u_fn = "none"
    /\ ~EncodeRaises(data)
    /\ u_fn' = "encode_fsk"
    /\ u_arg' = data
    /\ u_out' = <<Len(encode_fsk(data)) * SAMPLES_PER_BIT>>
    /\ UNCHANGED NotHelper

\* byte sequences given to bytes_to_bits: every single byte, short payloads
BitsInputs == {<<b>> : b \in 0..(BYTE_RANGE - 1)} \cup SmallPayloads

\* bit sequences given to bits_to_bytes: every one of up to MaxBits bits
MaxBits == 9
BitSeqs == UNION {[1..n -> {0, 1}] : n \in 0..MaxBits}

\* bytes_to_bits(data)
ToBits(data) ==
    /\ u_fn = "none"
    /\ u_fn' = "bytes_to_bits"
    /\ u_arg' = data
    /\ u_out' = bytes_to_bits(data)
    /\ UNCHANGED NotHelper

\* bits_to_bytes(bits)
ToBytes(bits) ==
    /\ u_fn = "none"
    /\ u_fn' = "bits_to_bytes"
    /\ u_arg' = bits
    /\ u_out' = bits_to_bytes(bits)
    /\ UNCHANGED NotHelper

\* bits_to_bytes(bytes_to_bits(data)): the bits of the last call are packed
BitsBack ==
    /\ u_fn = "bytes_to_bits"
    /\ u_fn' = "bits_to_bytes(bytes_to_bits)"
    /\ u_out' = bits_to_bytes(u_out)
    /\ UNCHANGED <<u_arg, NotHelper>>

-----------------------------------------------------------------------------
(* Specifications *)

MNext ==
    \/ \E p \in SmallPayloads : Modulate(p)
    \/ \E n \in FillLens, b \in FillVals : Modulate(Fill(n, b))
    \/ \E n \in FillLens, b \in FillVals : ModulateRaises(Fill(n, b))
    \/ CaptureClean
    \/ \E lead \in 1..MaxLead : CaptureShifted(lead)
    \/ \E k \in 1..(CodedFirst + 8 * REPETITIONS * (MaxLen + 3)) : CaptureFlipped(k)
    \/ \E j \in (1..(8 * (MaxLen + 2))) \cup {8 * (REQUEST_SIZE + 2)} :
          CaptureFlippedPair(j)
    \/ Windows
    \/ Threshold
    \/ SyncScan
    \/ PayloadRecovery

Init == MInit /\ CInit /\ SInit /\ BInit /\ UInit /\ TInit

SpecModem == Init /\ [][MNext]_vars

\* runs in which the capture is the modulator's buffer between silences
PNext ==
    \/ \E p \in SmallPayloads : Modulate(p)
    \/ \E n \in FillLens \ {BYTE_RANGE}, b \in FillVals : Modulate(Fill(n, b))
    \/ \E lead \in PadLeads, trail \in PadTrails : CapturePadded(lead, trail)
    \/ \E lead \in LateLeads : CaptureLate(lead)
    \/ \E amp \in QuietAmps : CaptureQuiet(amp)
    \/ Windows
    \/ Threshold
    \/ SyncScan
    \/ PayloadRecovery

SpecSilence == Init /\ [][PNext]_vars

\* the most slots of a buffer of a short payload
MaxSlots == 2 * SilenceSlots + 8 * (PREAMBLE_LEN + 1) + 8 * REPETITIONS * (MaxLen + 3)

\* runs in which the capture is a part of the modulator's buffer
KNext ==
    \/ \E p \in SmallPayloads : Modulate(p)
    \/ \E lead \in 0..1, first \in {1, SilenceSlots + 1}, n \in 1..MaxSlots,
          amp \in FaintAmps : CaptureSlice(lead, first, n, amp)
    \/ \E j \in (0 - 7)..(8 * (MaxLen + 2)) : CaptureTwice(j)
    \/ Windows
    \/ Threshold
    \/ SyncScan
    \/ PayloadRecovery

SpecCapture == Init /\ [][KNext]_vars

CNext ==
    \/ \E r \in CompactRequestInputs : Encode("CompactPaymentRequest", r)
    \/ \E r \in PaymentRequestInputs : Encode("PaymentRequest", r)
    \/ \E r \in CompactResponseInputs : Encode("CompactPaymentResponse", r)
    \/ \E r \in PaymentResponseInputs : Encode("PaymentResponse", r)
    \/ Deliver
    \/ \E n \in {0, REQUEST_SIZE - 1, RESPONSE_SIZE - 1} : Truncate(n)
    \/ \E tail \in Tails : Extend(tail)
    \/ \E network_id \in WireIds, scheme_id \in WireIds : SetIds(network_id, scheme_id)
    \/ Decode

SpecCodec == Init /\ [][CNext]_vars

\* runs in which each class's bytes are read by the other module's class
WNext ==
    \/ \E r \in CompactRequestInputs : Encode("CompactPaymentRequest", r)
    \/ \E r \in PaymentRequestInputs : Encode("PaymentRequest", r)
    \/ \E r \in CompactResponseInputs : Encode("CompactPaymentResponse", r)
    \/ \E r \in PaymentResponseInputs : Encode("PaymentResponse", r)
    \/ Deliver
    \/ DecodeByPeer

SpecWire == Init /\ [][WNext]_vars

TNext ==
    \/ \E offset \in Offsets, lag \in Lags : TimingStart(offset, lag)
    \/ SellerPlaysRequest
    \/ BuyerRecords
    \/ BuyerGivesUp
    \/ BuyerPlaysResponse
    \/ SellerRecords

SpecTiming == Init /\ [][TNext]_vars

UNext ==
    \/ \E data_length \in 0..(BYTE_RANGE - 1) : Duration(data_length)
    \/ \E data \in CrcInputs : Crc(data)
    \/ \E n \in 0..(BYTE_RANGE - 1) : Samples(Fill(n, SYNC_BYTE))
    \/ \E data \in BitsInputs : ToBits(data)
    \/ \E bits \in BitSeqs : ToBytes(bits)
    \/ BitsBack

SpecHelper == Init /\ [][UNext]_vars

\* runs in which a response of any shape is encoded and handed to the peer
ENext ==
    \/ \E r \in ShapedCompactResponses : EncodeShaped("CompactPaymentResponse", r)
    \/ \E r \in ShapedPaymentResponses : EncodeShaped("PaymentResponse", r)
    \/ Deliver
    \/ Decode

SpecEncode == Init /\ [][ENext]_vars

SellerNext ==
    \/ \E t \in SellerThreads : SellerStart(t)
    \/ SellerReset
    \/ \E t \in SellerThreads, nonce \in RequestNonces : SellerBroadcast(t, nonce)
    \/ \E t \in SellerThreads, started \in BOOLEAN : SellerPlay(t, started)
    \/ \E t \in SellerThreads : SellerPlayed(t)
    \/ SellerTick
    \/ \E t \in SellerThreads, opened \in BOOLEAN : SellerListen(t, opened)
    \/ \E t \in SellerThreads, level \in {0, 1} : SellerCallback(t, level)
    \/ \E t \in SellerThreads : SellerCaptured(t)
    \/ \E t \in SellerThreads, heard \in SellerHears : SellerVerify(t, heard)
    \/ \E t \in SellerThreads, online \in BOOLEAN : SellerSubmit(t, online)
    \/ \E t \in SellerThreads, receipt_ok \in BOOLEAN : SellerSettled(t, receipt_ok)

SpecSeller == Init /\ [][SellerNext]_vars

BuyerNext ==
    \/ \E t \in BuyerThreads : BuyerStart(t)
    \/ BuyerReset
    \/ \E t \in BuyerThreads, opened \in BOOLEAN : BuyerListen(t, opened)
    \/ \E t \in BuyerThreads, level \in {0, 1} : BuyerCallback(t, level)
    \/ \E t \in BuyerThreads, loud \in BOOLEAN, heard \in BuyerHears :
          BuyerCaptured(t, loud, heard)
    \/ \E t \in BuyerThreads, signed \in HeardResponses \cup {<<>>} : BuyerSign(t, signed)
    \/ \E t \in BuyerThreads, started \in BOOLEAN : BuyerPlay(t, started)
    \/ \E t \in BuyerThreads : BuyerPlayed(t)

SpecBuyer == Init /\ [][BuyerNext]_vars

\* the two user interfaces run on different machines and share no state: a
\* run of the flows is a run of the seller's, or a run of the buyer's
SellerUntouched ==
    s_state = SellerState0 /\ \A t \in SellerThreads : s_thread[t] = SellerThread0
BuyerUntouched ==
    b_state = BuyerState0 /\ \A t \in BuyerThreads : b_thread[t] = BuyerThread0

FlowNext ==
    \/ BuyerUntouched /\ SellerNext
    \/ SellerUntouched /\ BuyerNext

SpecFlows == Init /\ [][FlowNext]_vars

\* what thread t of run_seller_flow, of run_buyer_flow, does next: every
\* blocking call returns or raises
SellerStep(t) ==
    \/ \E nonce \in RequestNonces : SellerBroadcast(t, nonce)
    \/ \E started \in BOOLEAN : SellerPlay(t, started)
    \/ SellerPlayed(t)
    \/ \E opened \in BOOLEAN : SellerListen(t, opened)
    \/ SellerCaptured(t)
    \/ \E heard \in SellerHears : SellerVerify(t, heard)
    \/ \E online \in BOOLEAN : SellerSubmit(t, online)
    \/ \E receipt_ok \in BOOLEAN : SellerSettled(t, receipt_ok)
BuyerStep(t) ==
    \/ \E opened \in BOOLEAN : BuyerListen(t, opened)
    \/ \E loud \in BOOLEAN, heard \in BuyerHears : BuyerCaptured(t, loud, heard)
    \/ \E signed \in HeardResponses \cup {<<>>} : BuyerSign(t, signed)
    \/ \E started \in BOOLEAN : BuyerPlay(t, started)
    \/ BuyerPlayed(t)

\* the flows when every thread is scheduled again and again, time passes,
\* and no call blocks for ever
SpecFlowsFair ==
    /\ SpecFlows
    /\ WF_vars(SellerTick)
    /\ \A t \in SellerThreads : WF_vars(SellerStep(t))
    /\ \A t \in BuyerThreads : WF_vars(BuyerStep(t))

-----------------------------------------------------------------------------
(* Properties of the modem *)

\* the capture is the modulator's buffer itself
CleanCapture ==
    m_lead = 0 /\ m_flips = {} /\ m_amp = ToneAmp /\ (m_pc = "decoded" => Trail = 0)

\* C1: for every payload p with 1 <= |p| <= 255, decode_fsk(encode_fsk(p))
\* returns exactly p.
C1_RoundTrip ==
    (m_pc = "decoded" /\ CleanCapture /\ Len(m_data) >= 1 /\ Len(m_data) <= 255)
        => (m_result.ok /\ m_result.payload = m_data)

\* the byte decode_fsk reads, with repetition, i bytes after the length byte
CodedByte(i) == decode_byte_with_repetition(m_sync + ByteSpan + i * 8 * BitSpan)

\* C2: decode_fsk fails, or it returns a payload whose length is the length
\* byte decoded after the sync byte and whose crc16 is the two bytes decoded
\* right after the payload, big-endian.
C2_CrcGuard ==
    (m_pc = "decoded" /\ m_result.ok)
        => /\ Len(m_result.payload) = CodedByte(0)
           /\ \A i \in 1..Len(m_result.payload) : m_result.payload[i] = CodedByte(i)
           /\ crc16(m_result.payload)
                = 256 * CodedByte(Len(m_result.payload) + 1)
                  + CodedByte(Len(m_result.payload) + 2)

\* a capture with an inverted slot from which a payload was still returned
C2_Witness == m_pc = "decoded" /\ m_result.ok /\ m_flips # {} /\ Len(m_result.payload) >= 1

\* the bytes sent with repetition: length, payload, CRC high, CRC low
CodedBytes ==
    LET crc == crc16(m_data)
    IN <<Len(m_data)>> \o m_data \o <<crc \div 256, crc % 256>>

\* the bytes sent without repetition
HeaderBytes == <<PREAMBLE_BYTE, PREAMBLE_BYTE, PREAMBLE_BYTE, PREAMBLE_BYTE, SYNC_BYTE>>

C6_TooLarge ==
    m_pc # "idle"
        => /\ (Len(m_data) > 255) <=> (m_pc = "encode_error")
           /\ m_pc = "encode_error" => m_audio = <<>>
           /\ m_pc = "encoded" => Len(m_audio) > 0

\* 256 bytes were refused and 255 bytes were encoded
C6_Witness == m_pc = "encode_error" /\ Len(m_data) = 256 /\ m_audio = <<>>

\* the inverted slot lies in the payload bytes of the coded section
FlipInPayload ==
    \E k \in m_flips :
        /\ k >= CodedFirst + 8 * REPETITIONS
        /\ k <= CodedFirst + 8 * REPETITIONS * (Len(m_data) + 1) - 1

\* the one inverted slot was sent as tone (1 -> 0) / as silence (0 -> 1)
FlipToneLost == Cardinality(m_flips) = 1 /\ \A k \in m_flips : m_audio[k] = 0
FlipToneAdded == Cardinality(m_flips) = 1 /\ \A k \in m_flips : m_audio[k] = 1

PairFlipped ==
    /\ Cardinality(m_flips) = REPETITIONS
    /\ \E j \in 1..(8 * (Len(m_data) + 2)) : m_flips = PairSlots(j)

\* C11: when both symbols that carry one repeated bit of the payload or of
\* the CRC are flipped, decode_fsk fails and returns no payload, so never one
\* that differs from the payload sent; whenever the scan found the sync
\* point, the failure is the CRC mismatch.
C11_PairFlipFails ==
    (m_pc = "decoded" /\ PairFlipped)
        => /\ ~m_result.ok
           /\ m_result.payload = <<>>
           /\ m_sync # None => m_result.why = "crc"

\* a pair flip in the payload bytes, and one in the CRC, were refused by the
\* CRC check
C11_Witness ==
    /\ m_pc = "decoded" /\ PairFlipped /\ m_result.why = "crc"
    /\ Len(m_data) = MaxLen /\ FlipInPayload

\* the capture is the modulator's buffer with silence before or after it
PaddedCapture ==
    /\ m_flips = {}
    /\ m_amp = ToneAmp
    /\ m_lead > 0 \/ Trail > 0
    /\ m_lead <= SECOND_STEPS /\ Trail <= SECOND_SLOTS

\* C12: for every payload p with 1 <= |p| <= 255, decode_fsk still returns p
\* when up to one second of pure silence is put before and/or after
\* encode_fsk(p).
C12_SilencePadding ==
    (m_pc = "decoded" /\ PaddedCapture /\ Len(m_data) >= 1 /\ Len(m_data) <= 255)
        => (m_result.ok /\ m_result.payload = m_data)

\* the scan of decode_fsk has run on the capture
Scanned == m_pc \in {"synced", "decoded"} /\ m_thr # None

\* C13: a sync point decode_fsk uses is the one the sync rule accepts at an
\* offset below 10 s, a multiple of a quarter symbol; when the rule accepts
\* at no offset below 10 s, decode_fsk returns None for lack of a sync point.
C13_BoundedSearch ==
    Scanned
        => /\ m_sync # None
                => \E k \in 0..(SEARCH_STEPS - 1) : SyncAt(k * STEP) = m_sync
           /\ (\A k \in 0..(SEARCH_STEPS - 1) : SyncAt(k * STEP) = None)
                => (m_pc = "decoded" /\ ~m_result.ok /\ m_result.why = "sync")

\* a frame whose preamble starts at 10 s or later, under a threshold that
\* tells its tone from silence, was not found
C13_Witness ==
    /\ m_pc = "decoded" /\ m_result.why = "sync"
    /\ PreambleStep(m_lead) >= SEARCH_STEPS
    /\ Len(m_data) >= 1
    /\ m_thr < 200 * 16
    /\ \E k \in SEARCH_STEPS..(SEARCH_STEPS + 8 * SilenceSlots) : SyncAt(k * STEP) # None

\* 0xAA is decoded at pos and at the d bytes after it, and 0x55 after them
PreambleThenSync(pos, d) ==
    /\ \A i \in 0..d : SimpleByteIs(pos + i * ByteSpan, PREAMBLE_BYTE)
    /\ SimpleByteIs(pos + (d + 1) * ByteSpan, SYNC_BYTE)

\* AA 55, AA AA 55 or AA AA AA 55 is decoded from the k-th offset of the scan
AcceptedAt(k) == \E d \in 0..2 : PreambleThenSync(k * STEP, d)

\* C20: an offset of the scan is accepted exactly when 0xAA is decoded there
\* and 0x55 after it, with at most two more 0xAA in between; the scan stops at
\* the first accepted offset and its sync point is where that 0x55 starts; the
\* length byte is then read 8 symbols after the sync point.
C20_SyncRule ==
    Scanned
        => /\ m_sync = None => \A k \in 0..(NumOffsets - 1) : ~AcceptedAt(k)
           /\ m_sync # None
                => \E k \in 0..(NumOffsets - 1) : \E d \in 0..2 :
                      /\ PreambleThenSync(k * STEP, d)
                      /\ m_sync = k * STEP + (d + 1) * ByteSpan
                      /\ \A j \in 0..(k - 1) : ~AcceptedAt(j)
           /\ (m_pc = "decoded" /\ m_sync # None)
                => m_result.length
                     = decode_byte_with_repetition(m_sync + 8 * SAMPLES_PER_BIT)

\* behind a second of silence the scan stopped on AA AA AA 55, and the frame
\* was decoded from the length byte 8 symbols after the sync point
C20_Witness ==
    /\ m_pc = "decoded" /\ m_result.ok /\ m_lead = SECOND_STEPS
    /\ \E k \in 1..(NumOffsets - 1) :
          /\ PreambleThenSync(k * STEP, 2)
          /\ m_sync = k * STEP + 3 * ByteSpan
    /\ m_result.length = Len(m_data)

\* the complete windows of SAMPLES_PER_BIT samples the capture holds
CompleteWindows == AudioLen \div SAMPLES_PER_BIT

\* 1e8 times the greatest power among the complete windows
MaxCompletePowerE8 ==
    IF \E i \in 0..(CompleteWindows - 1) : goertzel_power(i * SAMPLES_PER_BIT) = 16
    THEN PowerE8(16)
    ELSE IF \E i \in 0..(CompleteWindows - 1) : goertzel_power(i * SAMPLES_PER_BIT) = 9
    THEN PowerE8(9)
    ELSE IF \E i \in 0..(CompleteWindows - 1) : goertzel_power(i * SAMPLES_PER_BIT) = 4
    THEN PowerE8(4)
    ELSE IF \E i \in 0..(CompleteWindows - 1) : goertzel_power(i * SAMPLES_PER_BIT) = 1
    THEN PowerE8(1)
    ELSE 0

\* the front end of decode_fsk has run on the capture
FrontEndDone == m_pc \in {"filtered", "synced", "decoded"}

\* ... and returned None
FrontEndFailed == m_pc = "decoded" /\ m_result.why \in {"windows", "power"}

\* C21: decode_fsk fails in its front end exactly when the capture holds
\* fewer than 10 complete windows of 480 samples (floor(len / 480) of them) or
\* the greatest power among them is below 1e-8; ten complete windows pass.
C21_FrontEnd ==
    FrontEndDone
        => (FrontEndFailed
              <=> (CompleteWindows < MIN_WINDOWS \/ MaxCompletePowerE8 < 1))

\* variant: `if response_bytes is None`
NotNone(result) == result

\* the recording holds a damaged frame and then the same frame intact
TwoFrames ==
    /\ m_flips # {}
    /\ Len(m_audio) = 2 * Len(encode_fsk(m_data))

\* the first sample of the sync byte of the second frame
SecondSync ==
    (Len(encode_fsk(m_data)) + SilenceSlots + 8 * PREAMBLE_LEN) * SAMPLES_PER_BIT

\* the scan would accept an offset with that sync point, and decoding from
\* it yields the payload
SecondFrameValid ==
    /\ \E k \in 0..(NumOffsets - 1) : SyncAt(k * STEP) = SecondSync
    /\ RecoveredFrom(SecondSync).ok
    /\ RecoveredFrom(SecondSync).payload = m_data

\* C26: decode_fsk decodes from the first offset of the scan that the sync
\* rule accepts and from no other: when the frame there fails (a window past
\* the end of the audio, a CRC mismatch) it returns failure, also when a
\* complete valid frame follows later in the recording.
C26_FirstSyncOnly ==
    (m_pc = "decoded" /\ m_sync # None)
        => /\ \E k \in 0..(NumOffsets - 1) :
                 /\ SyncAt(k * STEP) = m_sync
                 /\ \A i \in 0..(k - 1) : SyncAt(i * STEP) = None
           /\ m_result = RecoveredFrom(m_sync)
           /\ TwoFrames => m_sync < SecondSync
           /\ (TwoFrames /\ \A k \in m_flips : k >= CodedFirst + 8 * REPETITIONS)
                => (~m_result.ok /\ m_result.why = "crc")

\* the first of two frames failed its CRC and decode_fsk returned None,
\* though the second frame is intact and within the scan
C26_Witness ==
    /\ m_pc = "decoded" /\ TwoFrames /\ Len(m_data) >= 1
    /\ m_sync < SecondSync
    /\ ~m_result.ok /\ m_result.why = "crc"
    /\ SecondFrameValid

\* `if not response_bytes`: None and the empty payload are both a failure
NotBytes(result) ==
    IF result.ok /\ result.payload = <<>> THEN NoFrame("empty") ELSE result

\* ui_seller.py lines 574-579: what the seller takes from its capture
SellerReceives == NotBytes(m_result)

\* ui_buyer.py lines 610-623: what the buyer takes from its capture
BuyerReceives == IF m_amp < AMP_GATE THEN NoFrame("quiet") ELSE NotBytes(m_result)

\* C14: a capture whose peak amplitude is below 0.01 yields failure, and no
\* payload, on the seller's receive path and on the buyer's.
C14_QuietFails ==
    (m_pc = "decoded" /\ m_amp < AMP_GATE)
        => (~SellerReceives.ok /\ ~BuyerReceives.ok)

\* the length byte decoded after the sync byte is 0
EmptyFrame == m_pc = "decoded" /\ m_result.length = 0

\* C23 as stated: when the decoded length byte is 0, decode_fsk returns
\* failure whatever the two CRC bytes after it are.
C23_EmptyAlwaysFails == EmptyFrame => ~m_result.ok

\* C23: when the decoded length byte is 0, decode_fsk returns the empty
\* payload if the two bytes after it are FF FF, the CRC of no bytes, and
\* failure otherwise; the seller and the buyer take either as a failed decode.
C23_EmptyFrame ==
    EmptyFrame
        => /\ m_result.ok <=> m_result.crc = CRC_INIT
           /\ m_result.ok => m_result.payload = <<>>
           /\ ~SellerReceives.ok /\ ~BuyerReceives.ok

\* the frame of the empty payload arrived intact and decode_fsk returned b""
C23_Witness ==
    /\ EmptyFrame /\ m_data = <<>> /\ m_flips = {}
    /\ m_result.ok /\ m_result.payload = <<>> /\ m_result.crc = CRC_INIT
    /\ ~SellerReceives.ok

-----------------------------------------------------------------------------
(* Properties of the record codecs *)

\* a decoded buffer that arrived as it was encoded
RoundTrip(codecs) == c_pc = "decoded" /\ c_how = "intact" /\ c_codec \in codecs

\* the fields of a request are within what the wire format holds
ValidRequest ==
    /\ c_rec.network \in {"base-sepolia", "base", "ethereum", "ethereum-sepolia"}
    /\ c_rec.nonce \in 0..255
    /\ c_codec = "CompactPaymentRequest"
          => (c_rec.scheme = "exact" /\ c_rec.version \in 0..255)

\* the fields both request classes have, except pay_to, after a round trip
RequestFieldsKept ==
    /\ Len(c_wire) = 30
    /\ c_out.network = c_rec.network
    /\ c_out.nonce = c_rec.nonce
    /\ c_out.price = (IF c_rec.price[1] > 65535 THEN <<65535, 65535>> ELSE c_rec.price)
    /\ c_out.timeout = (IF c_rec.timeout > 65535 THEN 65535 ELSE c_rec.timeout)
    /\ c_codec = "CompactPaymentRequest"
          => (c_out.version = c_rec.version /\ c_out.scheme = c_rec.scheme)

\* C3 as stated: a valid request encodes to 30 bytes and decodes to the same
\* version, network, scheme, pay_to and nonce, price and timeout saturated.
C3_RequestRoundTrip ==
    (RoundTrip(RequestCodecs) /\ ValidRequest)
        => (RequestFieldsKept /\ c_out.pay_to = c_rec.pay_to)

\* str.lower() on hexadecimal digits and "x"
LowerChar(c) ==
    CASE c = "A" -> "a" [] c = "B" -> "b" [] c = "C" -> "c" [] c = "D" -> "d"
      [] c = "E" -> "e" [] c = "F" -> "f" [] OTHER -> c

Lower(s) == [k \in 1..Len(s) |-> LowerChar(s[k])]

\* C3: a valid request encodes to 30 bytes and decodes to the same version,
\* network, scheme and nonce, price and timeout saturated; pay_to decodes to
\* the same 20-byte address written in lower-case hexadecimal, so it equals
\* the original pay_to up to letter case.
C3_RequestRoundTripAddress ==
    (RoundTrip(RequestCodecs) /\ ValidRequest)
        => /\ RequestFieldsKept
           /\ fromhex(Drop2(c_out.pay_to)) = fromhex(Drop2(c_rec.pay_to))
           /\ c_out.pay_to = Lower(c_rec.pay_to)

\* a compact request with a mixed-case address and a price above 32 bits
C3_Witness ==
    /\ RoundTrip({"CompactPaymentRequest"}) /\ ValidRequest
    /\ c_rec.pay_to # Lower(c_rec.pay_to)
    /\ c_rec.price[1] > 65535
    /\ c_rec.timeout > 65535

\* the fields of a response are within what the wire format holds
ValidResponse ==
    /\ c_rec.network \in {"base-sepolia", "base", "ethereum", "ethereum-sepolia"}
    /\ c_codec = "CompactPaymentResponse"
          => /\ c_rec.scheme = "exact"
             /\ c_rec.version \in 0..255
             /\ Len(Strip0x(c_rec.signature)) = 2 * 65
             /\ Len(Strip0x(c_rec.nonce)) = 2 * 32
    /\ c_codec = "PaymentResponse"
          => (Len(c_rec.r) = 32 /\ Len(c_rec.s) = 32 /\ Len(c_rec.nonce) = 32
              /\ c_rec.v \in 0..255)

\* the signature and nonce bytes a response record holds
SigBytes(r) == fromhex(Strip0x(r.signature))
NonceBytes(r) == fromhex(Strip0x(r.nonce))

\* C4: a valid response encodes to 108 bytes and decodes to the same version,
\* network, scheme, v, valid_after and valid_before; r, s and the 32-byte
\* nonce are on the wire and in the decoded record byte for byte.
C4_ResponseRoundTrip ==
    (RoundTrip(ResponseCodecs) /\ ValidResponse)
        => /\ Len(c_wire) = 108
           /\ c_out.network = c_rec.network
           /\ c_out.valid_after = c_rec.valid_after
           /\ c_out.valid_before = c_rec.valid_before
           /\ c_codec = "CompactPaymentResponse"
                 => /\ c_out.version = c_rec.version
                    /\ c_out.scheme = c_rec.scheme
                    /\ SigBytes(c_out) = SigBytes(c_rec)
                    /\ NonceBytes(c_out) = NonceBytes(c_rec)
                    /\ SubSeq(c_wire, 5, 68) = SubSeq(SigBytes(c_rec), 1, 64)
                    /\ c_wire[4] = SigBytes(c_rec)[65]
                    /\ SubSeq(c_wire, 69, 100) = NonceBytes(c_rec)
           /\ c_codec = "PaymentResponse"
                 => /\ c_out.v = c_rec.v /\ c_out.r = c_rec.r /\ c_out.s = c_rec.s
                    /\ c_out.nonce = c_rec.nonce
                    /\ SubSeq(c_wire, 5, 36) = c_rec.r
                    /\ SubSeq(c_wire, 37, 68) = c_rec.s
                    /\ SubSeq(c_wire, 69, 100) = c_rec.nonce
                    /\ c_wire[4] = c_rec.v

\* a compact response signed in upper-case hexadecimal, valid until 0xFFFFFFFF
C4_Witness ==
    /\ RoundTrip({"CompactPaymentResponse"}) /\ ValidResponse
    /\ c_rec.signature # Lower(c_rec.signature)
    /\ c_rec.valid_before = <<65535, 65535>>

-----------------------------------------------------------------------------
(* Properties of the flows *)

\* threads of a side whose playback is running, and whose input stream is open
SellerPlaying == {t \in SellerThreads : s_thread[t].pc = "playing"}
SellerCapturing == {t \in SellerThreads : s_thread[t].pc = "capturing"}
BuyerPlaying == {t \in BuyerThreads : b_thread[t].pc = "playing"}
BuyerCapturing == {t \in BuyerThreads : b_thread[t].pc = "capturing"}

\* C8: on each side, in every reachable state, repeated /start requests
\* included, the device is never capturing audio while it is playing audio,
\* and the seller opens its input stream only after a pause of at least 8
\* seconds that follows its playback.
C8_StrictAlternation ==
    /\ SellerPlaying = {} \/ SellerCapturing = {}
    /\ BuyerPlaying = {} \/ BuyerCapturing = {}
    /\ \A t \in SellerCapturing : s_thread[t].slept >= PAUSE_S

\* C9: the parameters handed to settle_payment, and the arguments of the
\* transfer it builds, are the buyer's address, pay_to and price of the
\* request this flow broadcast, and valid_after, valid_before, nonce, v, r, s
\* as PaymentResponse.from_bytes decoded them from the received payload.
C9_SettlementParams ==
    \A t \in SellerThreads :
        s_thread[t].pc \in {"settling", "submitted"} =>
            LET decoded == PaymentResponse_from_bytes(s_thread[t].response.payload)
                request == s_thread[t].request
                params  == s_thread[t].params
                tx      == s_thread[t].tx
            IN /\ request.pay_to = SELLER_ADDRESS
               /\ request.price = <<0, REQUEST_PRICE>>
               /\ params.from_address = BUYER_ADDRESS
               /\ params.to = request.pay_to
               /\ params.value = request.price
               /\ params.valid_after = decoded.valid_after
               /\ params.valid_before = decoded.valid_before
               /\ params.v = decoded.v
               /\ fromhex(Strip0x(params.nonce)) = decoded.nonce
               /\ fromhex(Strip0x(params.r)) = decoded.r
               /\ fromhex(Strip0x(params.s)) = decoded.s
               /\ s_thread[t].pc = "submitted" =>
                    /\ tx.from_address = fromhex(Strip0x(BUYER_ADDRESS))
                    /\ tx.to = fromhex(Strip0x(request.pay_to))
                    /\ tx.value = request.price
                    /\ tx.valid_after = decoded.valid_after
                    /\ tx.valid_before = decoded.valid_before
                    /\ tx.nonce = decoded.nonce
                    /\ tx.v = decoded.v
                    /\ tx.r = decoded.r
                    /\ tx.s = decoded.s

\* a transfer was built from a response whose r and s differ, while the state
\* dict had been replaced by /reset
C9_Witness ==
    \E t \in SellerThreads :
        /\ s_thread[t].pc = "submitted"
        /\ s_thread[t].tx.r # s_thread[t].tx.s
        /\ Len(s_thread[t].tx.r) = WORD_SIZE
        /\ s_state.request = NoRecord

\* how far a thread of run_seller_flow, of run_buyer_flow, has come
SellerRank(pc) ==
    CASE pc = "none" -> 0 [] pc = "spawned" -> 1 [] pc = "ready" -> 2
      [] pc = "playing" -> 3 [] pc = "pause" -> 4 [] pc = "capturing" -> 5
      [] pc = "verifying" -> 6 [] pc = "settling" -> 7 [] pc = "submitted" -> 8
      [] pc = "done" -> 9
BuyerRank(pc) ==
    CASE pc = "none" -> 0 [] pc = "spawned" -> 1 [] pc = "capturing" -> 2
      [] pc = "signing" -> 3 [] pc = "signed" -> 4 [] pc = "playing" -> 5
      [] pc = "done" -> 6

\* C22: a flow never comes back to an earlier point, so it opens its input
\* stream and calls decode_fsk at most once; when decode_fsk hands back no
\* payload the thread returns at once, with the status "error": it records
\* and decodes no second time, and the seller attempts no settlement.
C22_NoRetry ==
    [][/\ \A t \in SellerThreads :
            /\ SellerRank(s_thread'[t].pc) >= SellerRank(s_thread[t].pc)
            /\ (s_thread[t].ended = "no" /\ s_thread'[t].ended = "decode")
                 => /\ s_thread[t].pc = "verifying" /\ s_thread'[t].pc = "done"
                    /\ s_state'.status = "error"
                    /\ s_thread'[t].tx = NoRecord
            /\ s_thread[t].ended = "decode" => s_thread'[t].pc = "done"
       /\ \A t \in BuyerThreads :
            /\ BuyerRank(b_thread'[t].pc) >= BuyerRank(b_thread[t].pc)
            /\ (b_thread[t].ended = "no" /\ b_thread'[t].ended = "decode")
                 => /\ b_thread[t].pc = "capturing" /\ b_thread'[t].pc = "done"
                    /\ b_state'.status = "error"
            /\ b_thread[t].ended = "decode" => b_thread'[t].pc = "done"]_vars

\* decode_fsk handed the seller no payload and its flow is over, in error
C22_Witness ==
    \E t \in SellerThreads :
        /\ s_thread[t].ended = "decode" /\ s_thread[t].pc = "done"
        /\ s_thread[t].step = 3
        /\ s_state.status = "error"

\* thread t returns in this step because decode_fsk handed back no payload
\* or because settle_payment raised
SellerFails(t) ==
    s_thread[t].ended = "no" /\ s_thread'[t].ended \in {"decode", "settle"}

\* C24: the seller's verified is true only if a flow decoded a response and
\* settle_payment returned its transaction hash, and a flow that ends on a
\* failed decode or on a settlement error leaves verified false and the
\* status other than "success".
C24_VerifiedOnlySettled ==
    /\ [](s_state.verified => \E t \in SellerThreads : s_thread[t].ended = "settled")
    /\ [][\A t \in SellerThreads :
            SellerFails(t) => (~s_state'.verified /\ s_state'.status # "success")]_vars

\* /reset was served and no /start since: every thread there is was spawned
\* before it
SellerAfterReset ==
    /\ \E t \in SellerThreads : s_thread[t].stale
    /\ \A t \in SellerThreads : s_thread[t].pc = "none" \/ s_thread[t].stale
BuyerAfterReset ==
    /\ \E t \in BuyerThreads : b_thread[t].stale
    /\ \A t \in BuyerThreads : b_thread[t].pc = "none" \/ b_thread[t].stale

\* the state dict has been idle since /reset
SellerIdle == s_state.status = "idle" /\ s_state.step = 0 /\ ~s_state.verified
BuyerIdle == b_state.status = "idle" /\ b_state.step = 0 /\ ~b_state.payment_sent

\* C27: from a /reset to the next /start the state /status returns is idle
\* (status "idle", step 0, verified and payment_sent false), also while a
\* thread spawned before the /reset is running; and the state /status
\* returns always has the amplitude key.
C27_ResetHolds ==
    /\ SellerAfterReset => SellerIdle
    /\ BuyerAfterReset => BuyerIdle
    /\ s_state.amplitude # None
    /\ b_state.amplitude # None

\* the record has the shape its class documents: a signature of 65 bytes and
\* a nonce of 32 bytes in well-formed hexadecimal; r, s and nonce of 32 bytes
WellShaped(codec, r) ==
    IF codec = "CompactPaymentResponse"
    THEN /\ ~fromhexRaises(Strip0x(r.signature))
         /\ Len(Strip0x(r.signature)) = 2 * (2 * WORD_SIZE + 1)
         /\ ~fromhexRaises(Strip0x(r.nonce))
         /\ Len(Strip0x(r.nonce)) = 2 * WORD_SIZE
    ELSE Len(r.r) = WORD_SIZE /\ Len(r.s) = WORD_SIZE /\ Len(r.nonce) = WORD_SIZE

\* C15: to_bytes of a response whose signature is not 65 bytes, whose r, s or
\* nonce is not 32 bytes, or whose hexadecimal text is malformed, raises an
\* error and produces no frame.
C15_EncodeRejects ==
    (c_pc # "idle" /\ c_codec \in ResponseCodecs /\ ~WellShaped(c_codec, c_rec))
        => (c_pc = "encode_error" /\ c_wire = <<>>)

\* C16: decoding a request whose network ID is one of the four named
\* networks (0..3) derives the asset as the stablecoin address registered for
\* that same network; the 30 bytes on the wire carry no asset.
C16_AssetOfNetwork ==
    (c_pc = "decoded" /\ c_codec = "CompactPaymentRequest" /\ c_wire[2] \in 0..3)
        => /\ c_out.network = NETWORKS_REVERSE[c_wire[2]]
           /\ c_out.network \in DOMAIN USDC_ADDRESSES
           /\ c_out.asset = USDC_ADDRESSES[c_out.network]

\* C25: whenever the buyer's recording recovers the seller's request, the
\* frame of the buyer's response is played inside the seller's recording,
\* which opens 8 s after the request was played and lasts
\* get_duration(108) + 5 seconds.
C25_ResponseHeard ==
    (t_run.pc = "listened" /\ t_run.recovered) => t_run.heard

-----------------------------------------------------------------------------
(* Properties of the helpers *)

\* C17: for every payload length N in 0..255, get_duration(N) is
\* (40 + (N + 3) * 16) * 0.010 + 0.4 seconds, here in milliseconds.
C17_Duration ==
    u_fn = "get_duration"
        => u_out[1] = (40 + (u_arg[1] + 3) * 16) * 10 + 400

\* the duration of a response, 18.56 s, was computed
C17_Witness ==
    u_fn = "get_duration" /\ u_arg[1] = RESPONSE_SIZE /\ u_out[1] = 18560

\* the received bytes were read by the other module's class
ReadByPeer(codec) == c_pc = "decoded" /\ c_how = "peer" /\ c_codec = codec

Busy == {"playing", "listening", "signing", "verifying"}

\* thread t is in its flow
SellerRunning(t) == s_thread[t].pc \notin {"none", "done"}
BuyerRunning(t) == b_thread[t].pc \notin {"none", "done"}

\* C29: every seller flow and every buyer flow, once started, returns, and
\* the step that ends it writes the status "success" or "error"; the steps a
\* flow writes into the state are 1, 2, 3 in this order; and the status does
\* not stay at "playing", "listening", "signing" or "verifying" for ever.
C29_FlowsEnd ==
    /\ \A t \in SellerThreads : SellerRunning(t) ~> (s_thread[t].pc = "done")
    /\ \A t \in BuyerThreads : BuyerRunning(t) ~> (b_thread[t].pc = "done")
    /\ <>[](s_state.status \notin Busy /\ b_state.status \notin Busy)
    /\ [][/\ \A t \in SellerThreads :
              /\ (SellerRunning(t) /\ s_thread'[t].pc = "done")
                    => s_state'.status \in {"success", "error"}
              /\ s_thread'[t].step \in {s_thread[t].step, s_thread[t].step + 1}
              /\ s_thread'[t].step # s_thread[t].step
                    => s_state'.step = s_thread'[t].step
              /\ s_thread'[t].step \in 0..3
         /\ \A t \in BuyerThreads :
              /\ (BuyerRunning(t) /\ b_thread'[t].pc = "done")
                    => b_state'.status \in {"success", "error"}
              /\ b_thread'[t].step \in {b_thread[t].step, b_thread[t].step + 1}
              /\ b_thread'[t].step # b_thread[t].step
                    => b_state'.step = b_thread'[t].step
              /\ b_thread'[t].step \in 0..3]_vars

\* a seller flow went through its three steps and ended in a settlement
\* error, while another one is still on its way
C29_Witness ==
    \E t, u \in SellerThreads :
        /\ s_thread[t].pc = "done" /\ s_thread[t].ended = "settle"
        /\ s_thread[t].step = 3
        /\ SellerRunning(u)

\* C30: for every payload of N <= 255 bytes the audio of encode_fsk has
\* (40 + (N + 3) * 16) * 480 + 2 * 9600 samples, which is 48000 samples for
\* every second of get_duration(N): a capture of get_duration(N) seconds
\* holds the whole audio and not one sample more.
C30_SampleCount ==
    u_fn = "encode_fsk"
        => /\ u_out[1] = (40 + (Len(u_arg) + 3) * 16) * 480 + 2 * 9600
           /\ u_out[1] = (SAMPLE_RATE \div 1000) * get_duration(Len(u_arg))

\* the audio of a 255-byte payload, the longest the modulator accepts
C30_Witness ==
    /\ u_fn = "encode_fsk"
    /\ Len(u_arg) = BYTE_RANGE - 1
    /\ u_out[1] = 2019840

\* C18: crc16 is CRC-16/CCITT-FALSE: of the empty sequence it is 0xFFFF, of
\* the ASCII bytes "123456789" it is 0x29B1, and it is always in 0..0xFFFF.
C18_CrcVectors ==
    u_fn = "crc16"
        => /\ u_out[1] \in 0..65535
           /\ u_arg = <<>> => u_out[1] = 65535
           /\ u_arg = CheckString => u_out[1] = 10673

\* the check value 0x29B1 was computed
C18_Witness == u_fn = "crc16" /\ u_arg = CheckString /\ u_out = <<10673>>

\* the byte that eight bits from position k on spell, first bit heaviest
MsbByte(bits, k) ==
      bits[k] * 128 + bits[k + 1] * 64 + bits[k + 2] * 32 + bits[k + 3] * 16
    + bits[k + 4] * 8 + bits[k + 5] * 4 + bits[k + 6] * 2 + bits[k + 7]

\* n zero bits
Zeros(n) == [k \in 1..n |-> 0]

\* C19: bytes_to_bits(b) has 8 * |b| bits, each byte most significant bit
\* first; bits_to_bytes(bytes_to_bits(b)) = b; a bit sequence whose length is
\* no multiple of 8 is packed as if zeros had been added on its right.
C19_BitsAndBytes ==
    /\ u_fn = "bytes_to_bits"
        => /\ Len(u_out) = 8 * Len(u_arg)
           /\ \A k \in 1..Len(u_out) : u_out[k] \in {0, 1}
           /\ \A i \in 1..Len(u_arg) : MsbByte(u_out, 8 * i - 7) = u_arg[i]
    /\ u_fn = "bits_to_bytes(bytes_to_bits)" => u_out = u_arg
    /\ u_fn = "bits_to_bytes"
        => \A pad \in {(8 - (Len(u_arg) % 8)) % 8} :
              /\ 8 * Len(u_out) = Len(u_arg) + pad
              /\ \A i \in 1..Len(u_out) :
                    u_out[i] = MsbByte(u_arg \o Zeros(pad), 8 * i - 7)

\* three bits were packed into one byte, and a two-byte sequence came back
\* from its bits
C19_Witness ==
    \/ u_fn = "bits_to_bytes" /\ u_arg = <<1, 0, 1>> /\ u_out = <<160>>
    \/ u_fn = "bits_to_bytes(bytes_to_bits)" /\ u_arg = <<165, 255>>
           /\ u_out = <<165, 255>>

====
